---- MODULE Spec2Model ----
(***************************************************************************)
(* Lineage graph core of qlik_atlas: artifact normalizer, graph merge      *)
(* engine (GraphBuilder), subgraph extractor (bfs_subgraph) and the        *)
(* orphan-output heuristic.                                                *)
(*                                                                         *)
(* Strings are sequences of letters.  A letter is a single character       *)
(* ("a", "|", " ") or a fixed word that the code only ever tests whole     *)
(* ("qri:db:", "://", ".qvd").  Python's None is the one-letter string     *)
(* None, whose letter is not a character of any real string.  The node     *)
(* type, the layer and the relation are the enumerations of                *)
(* shared/models.py and are TLA+ strings.  A fetched_at timestamp is the   *)
(* instant it parses to, a positive integer; 0 is an absent one.           *)
(***************************************************************************)
EXTENDS Integers, Sequences, FiniteSets, TLC

(* ------------------------------------------------------------------ *)
(* Python values                                                       *)
(* ------------------------------------------------------------------ *)

None == <<"None">>

\* Python truthiness of an optional string: None and "" are false.
Falsy(x) == x = None \/ x = <<>>

\* dict.get(key): None for a missing key.
Get(d, key) == IF key \in DOMAIN d THEN d[key] ELSE None

\* A Python dict literal with one key.
Dict1(key, value) == [x \in {key} |-> value]

\* d with d[key] = value (insert or overwrite).
DictSet(d, key, value) == [x \in DOMAIN d \cup {key} |-> IF x = key THEN value ELSE d[x]]

EmptyDict == [x \in {} |-> None]

Range(s) == {s[i] : i \in DOMAIN s}

StartsWith(s, letter) == Len(s) >= 1 /\ s[1] = letter

\* str.split() separators.
Whitespace == {" ", "\t"}

(* ------------------------------------------------------------------ *)
(* fetchers/qri_heuristics.py                                          *)
(* ------------------------------------------------------------------ *)

\* original.split(): the maximal runs of non-whitespace letters, in order.
RECURSIVE SplitWords(_, _, _)
SplitWords(s, cur, acc) ==
    IF s = <<>>
    THEN (IF cur = <<>> THEN acc ELSE Append(acc, cur))
    ELSE IF Head(s) \in Whitespace
         THEN SplitWords(Tail(s), <<>>, IF cur = <<>> THEN acc ELSE Append(acc, cur))
         ELSE SplitWords(Tail(s), Append(cur, Head(s)), acc)

\* A join that puts nothing between the words.
RECURSIVE JoinWordsTight(_)
JoinWordsTight(words) ==
    IF words = <<>> THEN <<>> ELSE Head(words) \o JoinWordsTight(Tail(words))

\* " ".join(words)
RECURSIVE JoinWords(_)
JoinWords(words) ==
    IF words = <<>> THEN <<>>
    ELSE IF Len(words) = 1 THEN Head(words)
    ELSE Head(words) \o <<" ">> \o JoinWords(Tail(words))

\* normalize_qri(qri) -> (cleaned, original or None)
normalize_qri(qri) ==
    IF qri = None
    THEN [cleaned |-> <<>>, original |-> None]
    ELSE LET cleaned == JoinWords(SplitWords(qri, <<>>, <<>>))
         IN  [cleaned |-> cleaned,
              original |-> IF cleaned # qri THEN qri ELSE None]

\* str.lower() letter by letter; only these letters have an upper-case form
\* in the model's alphabet.
LowerLetter(c) ==
    CASE c = "A" -> "a"
      [] c = "S" -> "s"
      [] c = "PostgreSQL" -> "postgresql"
      [] c = "QRI:DB:" -> "qri:db:"
      [] OTHER -> c

Lower(s) == [i \in DOMAIN s |-> LowerLetter(s[i])]

\* extract_db_group: re.match(r"qri:db:([^:/]+)://", qri, re.I); the engine
\* is one letter of the model's alphabet.
extract_db_group(qri) ==
    IF Falsy(qri) THEN None
    ELSE IF Len(qri) >= 3 /\ qri[1] = "qri:db:" /\ qri[3] = "://"
            /\ qri[2] \notin {"://", ":", "/", "qri:db:"}
         THEN <<"db:", LowerLetter(qri[2])>>
         ELSE None

\* infer_group_from_label: re.match of the label against an optional
\* backtick, a non-empty qualifier without backtick or dot, an optional
\* backtick, a dot, and at least one letter that is not a dot.  The letter
\* "BQ" is the backtick.
infer_group_from_label(label) ==
    IF Falsy(label) THEN None
    ELSE LET s == label
             b == IF StartsWith(s, "BQ") THEN 1 ELSE 0
             Stops == {i \in (b + 1)..Len(s) : s[i] \in {"BQ", "."}}
             e == IF Stops = {} THEN Len(s) + 1
                  ELSE CHOOSE i \in Stops : \A j \in Stops : i <= j
             d == IF e <= Len(s) /\ s[e] = "BQ" THEN e + 1 ELSE e
         IN  IF e > b + 1 /\ d + 1 <= Len(s) /\ s[d] = "." /\ s[d + 1] # "."
             THEN SubSeq(s, b + 1, e - 1)
             ELSE None

\* derive_type_group_layer(qri, label, metadata) -> {type, layer, group}
derive_type_group_layer(qri, label, metadata) ==
    LET meta_type == Get(metadata, "type")
        subtype == Get(metadata, "subtype")
        qri_l == IF Falsy(qri) THEN <<>> ELSE Lower(qri)
        label_l == IF Falsy(label) THEN <<>> ELSE Lower(label)
        is_qvd == ".qvd" \in Range(qri_l) \/ ".qvd" \in Range(label_l)
        is_file == StartsWith(qri_l, "qri:file:") \/ "file://" \in Range(qri_l)
        is_app == StartsWith(qri_l, "qri:app:sense://")
        is_db == StartsWith(qri_l, "qri:db:")
    IN  IF is_qvd THEN [type |-> "qvd", layer |-> "extract", group |-> <<"qvd">>]
        ELSE IF is_file THEN [type |-> "file", layer |-> "extract", group |-> <<"file">>]
        ELSE IF is_app THEN [type |-> "app", layer |-> "app", group |-> None]
        ELSE IF is_db
             THEN IF subtype = <<"TABLE">>
                  THEN [type |-> "table", layer |-> "db", group |-> extract_db_group(qri)]
                  ELSE [type |-> "db", layer |-> "db", group |-> extract_db_group(qri)]
        ELSE IF meta_type = <<"DATASET">>
             THEN [type |-> "dataset", layer |-> "transform", group |-> None]
        ELSE [type |-> "other", layer |-> "other", group |-> None]

(* ------------------------------------------------------------------ *)
(* fetchers/qlik_normalizer.py                                         *)
(* ------------------------------------------------------------------ *)

\* (relation or "OTHER").upper() for the raw relation words of the model.
UpperRelation(relation) ==
    CASE relation \in {"LOAD", "load"} -> "LOAD"
      [] relation \in {"STORE", "store"} -> "STORE"
      [] relation \in {"DEPENDS", "depends"} -> "DEPENDS"
      [] relation = "None" -> "OTHER"
      [] OTHER -> relation

map_relation(relation) ==
    LET rel == UpperRelation(relation)
    IN  IF rel \in {"LOAD", "STORE", "DEPENDS"} THEN rel ELSE "OTHER"

\* An edge id that leaves the application out of the digest.
EdgeIdWithoutApp(source, target, relation, app_id) ==
    source \o <<"|">> \o target \o <<"|">> \o <<relation>>

\* build_semantic_edge_id: sha1 of f"{source}|{target}|{relation}|{app_id}".
\* The digest is taken to be collision free, so an id is represented by the
\* string that is digested.
build_semantic_edge_id(source, target, relation, app_id) ==
    source \o <<"|">> \o target \o <<"|">> \o <<relation>> \o <<"|">> \o app_id

\* build_node(qri_key, node_obj, app)
build_node(qri_key, node_obj, app) ==
    LET metadata == node_obj.metadata
        label0 == IF ~Falsy(node_obj.label) THEN node_obj.label
                  ELSE IF ~Falsy(Get(metadata, "label")) THEN Get(metadata, "label")
                  ELSE qri_key
        raw_id == IF ~Falsy(Get(metadata, "id")) THEN Get(metadata, "id") ELSE qri_key
        nq == normalize_qri(raw_id)
        norm_id == nq.cleaned
        hints == derive_type_group_layer(norm_id, label0, metadata)
        meta_type == Get(metadata, "type")
        subtype == Get(metadata, "subtype")
        t1 == IF meta_type = <<"DA_APP">> THEN "app" ELSE hints.type
        l1 == IF meta_type = <<"DA_APP">> THEN "app" ELSE hints.layer
        ds == meta_type = <<"DATASET">> /\ t1 = "other"
        t2 == IF ds THEN "dataset" ELSE t1
        l2 == IF ds THEN "transform" ELSE l1
        tb == subtype = <<"TABLE">>
              /\ (t2 \in {"db", "table", "other"} \/ StartsWith(norm_id, "qri:db:"))
        t3 == IF tb THEN "table" ELSE t2
        \* layer = layer or "db": the hints always carry a layer, so it stays.
        l3 == l2
        g1 == IF t3 = "app" /\ ~Falsy(app.spaceId) THEN app.spaceId ELSE hints.group
        g2 == IF Falsy(g1) THEN infer_group_from_label(label0) ELSE g1
        meta == IF nq.original # None /\ nq.original # norm_id
                   /\ "original_id" \notin DOMAIN metadata
                THEN DictSet(metadata, "original_id", nq.original)
                ELSE metadata
    IN  [id |-> norm_id,
         label |-> IF Falsy(label0) THEN norm_id ELSE label0,
         type |-> t3,
         subtype |-> subtype,
         group |-> g2,
         layer |-> l3,
         meta |-> meta]

\* A build_edge that drops an edge only when its source is empty.
BuildEdgeSourceOnly(edge, app_id, app_name, fetched_at, file_name) ==
    LET source == normalize_qri(edge.source).cleaned
        target == normalize_qri(edge.target).cleaned
        relation == map_relation(edge.relation)
    IN  IF Falsy(source)
        THEN <<>>
        ELSE <<[id |-> build_semantic_edge_id(source, target, relation, app_id),
                source |-> source,
                target |-> target,
                relation |-> relation,
                context |-> [appId |-> app_id, appName |-> app_name,
                             file |-> file_name, fetched_at |-> fetched_at]]>>

\* build_edge(edge, app_id, app_name, fetched_at, file_name) -> Optional[Dict]:
\* the empty sequence is None, a one-element sequence is the canonical edge.
build_edge(edge, app_id, app_name, fetched_at, file_name) ==
    LET source == normalize_qri(edge.source).cleaned
        target == normalize_qri(edge.target).cleaned
        relation == map_relation(edge.relation)
    IN  IF Falsy(source) \/ Falsy(target)
        THEN <<>>
        ELSE <<[id |-> build_semantic_edge_id(source, target, relation, app_id),
                source |-> source,
                target |-> target,
                relation |-> relation,
                context |-> [appId |-> app_id, appName |-> app_name,
                             file |-> file_name, fetched_at |-> fetched_at]]>>

\* The loop of normalize_file over edges_list: every canonical edge that
\* build_edge returns, in order.
RECURSIVE CanonicalEdges(_, _, _, _, _)
CanonicalEdges(edges_list, app_id, app_name, fetched_at, file_name) ==
    IF edges_list = <<>> THEN <<>>
    ELSE build_edge(Head(edges_list), app_id, app_name, fetched_at, file_name)
         \o CanonicalEdges(Tail(edges_list), app_id, app_name, fetched_at, file_name)

\* normalize_file(path) -> (app_info, canonical_nodes, canonical_edges), for
\* an artifact that is a JSON object: art.app, art.fetched_at, art.file (the
\* path's name) and the raw graph art.nodes (the dict's items, in order) and
\* art.edges.
normalize_file(art) ==
    LET app_id == IF Falsy(art.app.id) THEN <<>> ELSE art.app.id
        app_name == IF Falsy(art.app.name) THEN <<>> ELSE art.app.name
        canonical_nodes ==
            [i \in DOMAIN art.nodes |->
                build_node(art.nodes[i].key, art.nodes[i], art.app)]
        canonical_edges ==
            CanonicalEdges(art.edges, app_id, app_name, art.fetched_at, art.file)
    IN  [app_info |-> [appId |-> app_id,
                       appName |-> app_name,
                       spaceId |-> art.app.spaceId,
                       fetched_at |-> art.fetched_at,
                       fileName |-> art.file,
                       rootNodeId |-> None,
                       nodesCount |-> Len(canonical_nodes),
                       edgesCount |-> Len(canonical_edges)],
         nodes |-> canonical_nodes,
         edges |-> canonical_edges]

(* ------------------------------------------------------------------ *)
(* fetchers/graph_store.py: GraphBuilder                               *)
(* ------------------------------------------------------------------ *)

\* GraphBuilder._ensure_node(nodes, node_id)
EnsureNode(nodes, node_id) ==
    IF node_id \in DOMAIN nodes THEN nodes
    ELSE DictSet(nodes, node_id,
                 [id |-> node_id, label |-> node_id, type |-> "other",
                  subtype |-> None, group |-> None, layer |-> "other",
                  meta |-> EmptyDict])

\* A test that holds of every timestamp that is there.
IsPresent(candidate, current) == candidate # 0

\* GraphBuilder._is_newer(candidate, current)
IsNewer(candidate, current) ==
    IF candidate = 0 THEN FALSE
    ELSE IF current = 0 THEN TRUE
    ELSE candidate > current

\* GraphBuilder._new_edge_context(incoming)
NewEdgeContext(incoming) ==
    [appId |-> incoming.appId,
     appName |-> incoming.appName,
     file |-> incoming.file,
     fetched_at |-> incoming.fetched_at,
     appIds |-> IF Falsy(incoming.appId) THEN <<>> ELSE <<incoming.appId>>,
     appNames |-> IF Falsy(incoming.appName) THEN <<>> ELSE <<incoming.appName>>,
     files |-> IF Falsy(incoming.file) THEN <<>> ELSE <<incoming.file>>,
     firstFetchedAt |-> incoming.fetched_at,
     lastFetchedAt |-> incoming.fetched_at,
     occurrences |-> 1]

\* GraphBuilder._append_unique(values, candidate)
AppendUnique(values, candidate) ==
    IF candidate = None THEN values
    ELSE IF candidate \in Range(values) THEN values
    ELSE Append(values, candidate)

\* A merge of contexts that does not count the occurrence.
MergeContextUncounted(existing, incoming) ==
    [existing EXCEPT !.appIds = AppendUnique(@, incoming.appId),
                     !.appNames = AppendUnique(@, incoming.appName),
                     !.files = AppendUnique(@, incoming.file)]

\* GraphBuilder._merge_edge_context(existing, incoming)
MergeEdgeContext(existing, incoming) ==
    LET candidate == incoming.fetched_at
        newFirst == candidate # 0
                    /\ (existing.firstFetchedAt = 0
                        \/ IsNewer(existing.firstFetchedAt, candidate))
        newLast == candidate # 0
                   /\ (existing.lastFetchedAt = 0
                       \/ IsNewer(candidate, existing.lastFetchedAt))
    IN  [appId |-> IF Falsy(existing.appId) /\ ~Falsy(incoming.appId)
                   THEN incoming.appId ELSE existing.appId,
         appName |-> IF Falsy(existing.appName) /\ ~Falsy(incoming.appName)
                     THEN incoming.appName ELSE existing.appName,
         file |-> IF Falsy(existing.file) /\ ~Falsy(incoming.file)
                  THEN incoming.file ELSE existing.file,
         fetched_at |-> IF newLast THEN candidate ELSE existing.fetched_at,
         appIds |-> AppendUnique(existing.appIds, incoming.appId),
         appNames |-> AppendUnique(existing.appNames, incoming.appName),
         files |-> AppendUnique(existing.files, incoming.file),
         firstFetchedAt |-> IF newFirst THEN candidate ELSE existing.firstFetchedAt,
         lastFetchedAt |-> IF newLast THEN candidate ELSE existing.lastFetchedAt,
         occurrences |-> existing.occurrences + 1]

\* set.setdefault(key, set()).add(edge_id) on an adjacency index
AdjAdd(adj, key, edge_id) ==
    DictSet(adj, key, (IF key \in DOMAIN adj THEN adj[key] ELSE {}) \cup {edge_id})

\* An _add_edge that stores every incoming edge anew, a repeat replacing the
\* edge kept under the id.
AddEdgeOverwrite(edges, edge) ==
    DictSet(edges, edge.id,
            [id |-> edge.id, source |-> edge.source, target |-> edge.target,
             relation |-> edge.relation,
             context |-> NewEdgeContext(edge.context)])

\* The edges map after GraphBuilder._add_edge(edges, out_adj, in_adj, edge)
AddEdgeEdges(edges, edge) ==
    IF edge.id \notin DOMAIN edges
    THEN DictSet(edges, edge.id,
                 [id |-> edge.id, source |-> edge.source, target |-> edge.target,
                  relation |-> edge.relation,
                  context |-> NewEdgeContext(edge.context)])
    ELSE [edges EXCEPT ![edge.id].context = MergeEdgeContext(@, edge.context)]

\* out_adj after _add_edge: the id is filed under the incoming edge's source.
AddEdgeOut(out_adj, edge) == AdjAdd(out_adj, edge.source, edge.id)

\* in_adj after _add_edge: the id is filed under the incoming edge's target.
AddEdgeIn(in_adj, edge) == AdjAdd(in_adj, edge.target, edge.id)

\* A test that takes every label that is not the bare id.
IsAnyLabel(current, candidate, node_id) ==
    ~Falsy(candidate) /\ candidate # node_id

\* GraphBuilder._is_better_label(current, candidate, node_id)
IsBetterLabel(current, candidate, node_id) ==
    IF Falsy(candidate) \/ candidate = node_id THEN FALSE
    ELSE IF Falsy(current) \/ current = node_id THEN TRUE
    ELSE Len(candidate) > Len(current)

\* A meta loop in which the last writer wins.
MergeMetaOverwrite(existing_meta, incoming_meta, keys) ==
    [x \in DOMAIN existing_meta \cup keys |->
        IF x \in keys THEN incoming_meta[x] ELSE existing_meta[x]]

\* The meta loop of _merge_node: first writer wins, a None value is no writer.
RECURSIVE MergeMetaKeys(_, _, _)
MergeMetaKeys(existing_meta, incoming_meta, keys) ==
    IF keys = {} THEN existing_meta
    ELSE LET key == CHOOSE x \in keys : TRUE
             next == IF key \notin DOMAIN existing_meta \/ existing_meta[key] = None
                     THEN DictSet(existing_meta, key, incoming_meta[key])
                     ELSE existing_meta
         IN  MergeMetaKeys(next, incoming_meta, keys \ {key})

\* A merge that takes the type of every incoming node.
MergeNodeLastType(nodes, node) ==
    IF node.id \notin DOMAIN nodes
    THEN DictSet(nodes, node.id,
                 [id |-> node.id,
                  label |-> IF Falsy(node.label) THEN node.id ELSE node.label,
                  type |-> node.type,
                  subtype |-> node.subtype,
                  group |-> node.group,
                  layer |-> node.layer,
                  meta |-> node.meta])
    ELSE LET existing == nodes[node.id]
         IN  DictSet(nodes, node.id,
                 [id |-> existing.id,
                  label |-> IF IsBetterLabel(existing.label, node.label, node.id)
                            THEN node.label ELSE existing.label,
                  type |-> node.type,
                  subtype |-> IF Falsy(existing.subtype) /\ ~Falsy(node.subtype)
                              THEN node.subtype ELSE existing.subtype,
                  group |-> IF Falsy(existing.group) /\ ~Falsy(node.group)
                            THEN node.group ELSE existing.group,
                  layer |-> IF existing.layer = "other" THEN node.layer
                            ELSE existing.layer,
                  meta |-> MergeMetaKeys(existing.meta, node.meta, DOMAIN node.meta)])

\* GraphBuilder._merge_node(nodes, node)
MergeNode(nodes, node) ==
    IF node.id \notin DOMAIN nodes
    THEN DictSet(nodes, node.id,
                 [id |-> node.id,
                  label |-> IF Falsy(node.label) THEN node.id ELSE node.label,
                  type |-> node.type,
                  subtype |-> node.subtype,
                  group |-> node.group,
                  layer |-> node.layer,
                  meta |-> node.meta])
    ELSE LET existing == nodes[node.id]
         IN  DictSet(nodes, node.id,
                 [id |-> existing.id,
                  label |-> IF IsBetterLabel(existing.label, node.label, node.id)
                            THEN node.label ELSE existing.label,
                  type |-> IF existing.type = "other" /\ node.type # "other"
                           THEN node.type ELSE existing.type,
                  subtype |-> IF Falsy(existing.subtype) /\ ~Falsy(node.subtype)
                              THEN node.subtype ELSE existing.subtype,
                  group |-> IF Falsy(existing.group) /\ ~Falsy(node.group)
                            THEN node.group ELSE existing.group,
                  layer |-> IF existing.layer = "other" THEN node.layer
                            ELSE existing.layer,
                  meta |-> MergeMetaKeys(existing.meta, node.meta, DOMAIN node.meta)])

\* for node in canonical_nodes: self._merge_node(nodes, node)
RECURSIVE MergeNodes(_, _)
MergeNodes(nodes, canonical_nodes) ==
    IF canonical_nodes = <<>> THEN nodes
    ELSE MergeNodes(MergeNode(nodes, Head(canonical_nodes)), Tail(canonical_nodes))

\* A loop that ensures the source of every edge and no target.
RECURSIVE EnsureSources(_, _)
EnsureSources(nodes, canonical_edges) ==
    IF canonical_edges = <<>> THEN nodes
    ELSE EnsureSources(EnsureNode(nodes, Head(canonical_edges).source),
                       Tail(canonical_edges))

\* for edge in canonical_edges: _ensure_node(source); _ensure_node(target)
RECURSIVE EnsureNodes(_, _)
EnsureNodes(nodes, canonical_edges) ==
    IF canonical_edges = <<>> THEN nodes
    ELSE EnsureNodes(
             EnsureNode(EnsureNode(nodes, Head(canonical_edges).source),
                        Head(canonical_edges).target),
             Tail(canonical_edges))

\* The first index of a sequence that satisfies the test, 0 if none.
FirstIndex(s, Test(_)) ==
    IF \E i \in DOMAIN s : Test(s[i])
    THEN CHOOSE i \in DOMAIN s : Test(s[i]) /\ \A j \in 1..(i - 1) : ~Test(s[j])
    ELSE 0

\* candidate in text, for strings
Contains(text, candidate) ==
    \E i \in 0..(Len(text) - Len(candidate)) :
        SubSeq(text, i + 1, i + Len(candidate)) = candidate

\* A root detection that looks for the id scheme before the app name.
DetectRootSchemeFirst(canonical_nodes, app_name) ==
    LET IsDaApp(n) == Get(n.meta, "type") = <<"DA_APP">>
        IsNamedApp(n) == n.type = "app" /\ Contains(Lower(n.label), Lower(app_name))
        IsSenseApp(n) == StartsWith(n.id, "qri:app:sense://")
        a == FirstIndex(canonical_nodes, IsDaApp)
        b == FirstIndex(canonical_nodes, IsNamedApp)
        c == FirstIndex(canonical_nodes, IsSenseApp)
    IN  IF a # 0 THEN canonical_nodes[a].id
        ELSE IF c # 0 THEN canonical_nodes[c].id
        ELSE IF ~Falsy(app_name) /\ b # 0 THEN canonical_nodes[b].id
        ELSE IF canonical_nodes # <<>> THEN canonical_nodes[1].id
        ELSE None

\* GraphBuilder._detect_root(nodes, app_name)
DetectRoot(canonical_nodes, app_name) ==
    LET IsDaApp(n) == Get(n.meta, "type") = <<"DA_APP">>
        IsNamedApp(n) == n.type = "app" /\ Contains(Lower(n.label), Lower(app_name))
        IsSenseApp(n) == StartsWith(n.id, "qri:app:sense://")
        a == FirstIndex(canonical_nodes, IsDaApp)
        b == FirstIndex(canonical_nodes, IsNamedApp)
        c == FirstIndex(canonical_nodes, IsSenseApp)
    IN  IF a # 0 THEN canonical_nodes[a].id
        ELSE IF ~Falsy(app_name) /\ b # 0 THEN canonical_nodes[b].id
        ELSE IF c # 0 THEN canonical_nodes[c].id
        ELSE IF canonical_nodes # <<>> THEN canonical_nodes[1].id
        ELSE None

\* A merge in which the last record of an app replaces the stored one.
MergeAppInfoLast(apps, app_info) ==
    IF Falsy(app_info.appId) THEN apps ELSE DictSet(apps, app_info.appId, app_info)

\* GraphBuilder._merge_app_info(apps, app_info)
MergeAppInfo(apps, app_info) ==
    IF Falsy(app_info.appId) THEN apps
    ELSE IF app_info.appId \notin DOMAIN apps THEN DictSet(apps, app_info.appId, app_info)
    ELSE IF IsNewer(app_info.fetched_at, apps[app_info.appId].fetched_at)
         THEN DictSet(apps, app_info.appId, app_info)
         ELSE apps

\* root = self._detect_root(...); if root: app_info["rootNodeId"] = root
WithRoot(record) ==
    LET root == DetectRoot(record.nodes, record.app_info.appName)
    IN  IF Falsy(root) THEN record.app_info
        ELSE [record.app_info EXCEPT !.rootNodeId = root]

\* for edge in canonical_edges: self._add_edge(edges, out_adj, in_adj, edge)
RECURSIVE AddEdges(_, _)
AddEdges(g, canonical_edges) ==
    IF canonical_edges = <<>> THEN g
    ELSE AddEdges([g EXCEPT !.edges = AddEdgeEdges(@, Head(canonical_edges)),
                            !.out_adj = AddEdgeOut(@, Head(canonical_edges)),
                            !.in_adj = AddEdgeIn(@, Head(canonical_edges))],
                  Tail(canonical_edges))

\* One pass of the loop of GraphBuilder.build over a record.
MergeRecord(g, record) ==
    LET merged == [g EXCEPT !.nodes = MergeNodes(@, record.nodes)]
        added == AddEdges(merged, record.edges)
    IN  [added EXCEPT !.nodes = EnsureNodes(@, record.edges),
                      !.apps = MergeAppInfo(@, WithRoot(record))]

EmptySnapshot ==
    [nodes |-> EmptyDict, edges |-> EmptyDict, out_adj |-> EmptyDict,
     in_adj |-> EmptyDict, apps |-> EmptyDict]

\* GraphBuilder.build(records, files_loaded), as a function of its input
RECURSIVE BuildFrom(_, _)
BuildFrom(g, recs) ==
    IF recs = <<>> THEN g ELSE BuildFrom(MergeRecord(g, Head(recs)), Tail(recs))

Build(recs) == BuildFrom(EmptySnapshot, recs)

(* ------------------------------------------------------------------ *)
(* Bounds and input pools                                              *)
(* ------------------------------------------------------------------ *)

\* Artifacts per build.
MaxRecords == 2

\* Raw edges per artifact.
MaxEdges == 2

\* Raw nodes per artifact.
MaxNodes == 1

SeqsUpTo(S, n) == UNION {[1..m -> S] : m \in 0..n}

IdA == <<"a">>
IdAA == <<"a", "|", "a">>
IdT == <<"qri:db:", "pg", "://", "t">>

App1 == [id |-> <<"app-1">>, name |-> <<"Sales">>, spaceId |-> <<"space-1">>]
App2 == [id |-> <<"app-2">>, name |-> <<"Finance">>, spaceId |-> None]

\* Raw edges: two whose id strings coincide ("a|a" + "|" + "a" and
\* "a" + "|" + "a|a"), a table loaded by an app (padded with whitespace), and
\* two with an endpoint that normalizes to the empty id.
RawEdges ==
    {[source |-> IdAA, target |-> IdA, relation |-> "load"],
     [source |-> IdA, target |-> IdAA, relation |-> "LOAD"],
     [source |-> <<" ">> \o IdT \o <<" ">>, target |-> IdA, relation |-> "LOAD"],
     [source |-> None, target |-> IdA, relation |-> "STORE"],
     [source |-> IdA, target |-> <<" ", " ">>, relation |-> "reads"]}

\* Raw nodes: the table, described with its subtype, and the app node.
RawNodes ==
    {[key |-> IdT, label |-> <<"c", "u", "s", "t">>,
      metadata |-> Dict1("subtype", <<"TABLE">>)],
     [key |-> IdA, label |-> None,
      metadata |-> Dict1("type", <<"DA_APP">>)]}

FetchTimes == {1}

\* An artifact but for its file name.
ArtifactBodies ==
    [app : {App1, App2},
     fetched_at : FetchTimes,
     nodes : SeqsUpTo(RawNodes, MaxNodes),
     edges : SeqsUpTo(RawEdges, MaxEdges)]

\* sorted(data_dir.glob("*.json")): the i-th file of the listing.
FileName(i) == <<"file", i>>

WithFile(body, file) ==
    [app |-> body.app, fetched_at |-> body.fetched_at, file |-> file,
     nodes |-> body.nodes, edges |-> body.edges]

(* ------------------------------------------------------------------ *)
(* GraphBuilder.build as a state machine                               *)
(* ------------------------------------------------------------------ *)

VARIABLES
    arts,       \* the artifacts read, in the order of the listing
    records,    \* load_lineage_records(files): their canonical records
    ri,         \* the record the loop of build is at
    pc,         \* where the running function is
    k,          \* the canonical edge the _add_edge loop is at
    nodes, edges, out_adj, in_adj, apps,   \* the snapshot
    start, direction, depth,               \* arguments of bfs_subgraph / orphan_outputs
    visited_nodes, visited_edges, frontier, \* locals of bfs_subgraph
    hops,       \* iterations of "for _ in range(max(depth, 0))" done
    orphans,    \* what orphan_outputs returned
    ids,        \* what never_referenced or dead_ends returned
    fi,         \* the file or payload the loading loop is at
    skipped_files,  \* loader.skipped_files / skipped: name -> reason
    rows,       \* the arguments of _build_snapshot_from_rows
    node_projects, source_nodes_by_project_and_group,   \* its locals
    origin,     \* node id -> the node row whose payload its record was made of
    ci,         \* the data-connection row its last loop is at
    run,        \* how many times it has been called on the rows
    first,      \* what the first of two calls on the same input returned
    qri,        \* the argument of normalize_qri
    result,     \* what normalize_qri returned, None before the call
    incoming,   \* the canonical nodes or edges handed to _merge_node / _add_edge
    mi          \* the one the next call takes

snapshot_vars == <<nodes, edges, out_adj, in_adj, apps>>
build_vars == <<arts, records, ri, k>>
query_vars == <<start, direction, depth, visited_nodes, visited_edges, frontier,
                hops, orphans>>
rows_vars == <<rows, node_projects, source_nodes_by_project_and_group, origin, ci,
               run, first>>
unit_vars == <<qri, result, incoming, mi>>
call_vars == <<ids, fi, skipped_files, rows_vars, unit_vars>>
vars == <<build_vars, pc, snapshot_vars, query_vars, call_vars>>

\* Neither normalize_qri nor a merge has been called on its own.
UnitIdle ==
    /\ qri = None
    /\ result = None
    /\ incoming = <<>>
    /\ mi = 1

\* No other function has been called.
CallIdle ==
    /\ UnitIdle
    /\ ids = {}
    /\ fi = 1
    /\ skipped_files = EmptyDict
    /\ rows = EmptyDict
    /\ node_projects = EmptyDict
    /\ source_nodes_by_project_and_group = EmptyDict
    /\ origin = EmptyDict
    /\ ci = 1
    /\ run = 0
    /\ first = EmptyDict

\* No search is running.
SearchIdle ==
    /\ start = None
    /\ direction = "both"
    /\ depth = 0
    /\ visited_nodes = {}
    /\ visited_edges = {}
    /\ frontier = {}
    /\ hops = 0
    /\ orphans = {}

\* No query is running.
QueryIdle ==
    /\ start = None
    /\ direction = "both"
    /\ depth = 0
    /\ visited_nodes = {}
    /\ visited_edges = {}
    /\ frontier = {}
    /\ hops = 0
    /\ orphans = {}
    /\ CallIdle

\* load_lineage_records and the first lines of build.
InitOf(artifacts) ==
    /\ arts = artifacts
    /\ records = [i \in DOMAIN artifacts |-> normalize_file(artifacts[i])]
    /\ ri = 1
    /\ pc = "loop"
    /\ k = 1
    /\ nodes = EmptyDict
    /\ edges = EmptyDict
    /\ out_adj = EmptyDict
    /\ in_adj = EmptyDict
    /\ apps = EmptyDict
    /\ QueryIdle

Init ==
    \E bodies \in SeqsUpTo(ArtifactBodies, MaxRecords) :
        InitOf([i \in DOMAIN bodies |-> WithFile(bodies[i], FileName(i))])

\* for node in canonical_nodes: self._merge_node(nodes, node)
MergeRecordNodes ==
    /\ pc = "loop"
    /\ ri <= Len(records)
    /\ nodes' = MergeNodes(nodes, records[ri].nodes)
    /\ pc' = "edges"
    /\ k' = 1
    /\ UNCHANGED <<arts, records, ri, edges, out_adj, in_adj, apps, query_vars, call_vars>>

\* One call self._add_edge(edges, out_adj, in_adj, edge).
AddEdge ==
    /\ pc = "edges"
    /\ k <= Len(records[ri].edges)
    /\ edges' = AddEdgeEdges(edges, records[ri].edges[k])
    /\ out_adj' = AddEdgeOut(out_adj, records[ri].edges[k])
    /\ in_adj' = AddEdgeIn(in_adj, records[ri].edges[k])
    /\ k' = k + 1
    /\ UNCHANGED <<arts, records, ri, pc, nodes, apps, query_vars, call_vars>>

\* The rest of the loop body: the placeholders of the record's edges, the
\* root and the app info.
FinishRecord ==
    /\ pc = "edges"
    /\ k > Len(records[ri].edges)
    /\ nodes' = EnsureNodes(nodes, records[ri].edges)
    /\ apps' = MergeAppInfo(apps, WithRoot(records[ri]))
    /\ ri' = ri + 1
    /\ pc' = "loop"
    /\ k' = 1
    /\ UNCHANGED <<arts, records, edges, out_adj, in_adj, query_vars, call_vars>>

\* return GraphSnapshot(...)
Return ==
    /\ pc = "loop"
    /\ ri > Len(records)
    /\ pc' = "done"
    /\ UNCHANGED <<build_vars, snapshot_vars, query_vars, call_vars>>

Next == MergeRecordNodes \/ AddEdge \/ FinishRecord \/ Return

Spec == Init /\ [][Next]_vars

(* ------------------------------------------------------------------ *)
(* fetchers/heuristics.py                                              *)
(* ------------------------------------------------------------------ *)

\* adj.get(node_id, set())
AdjGet(adj, node_id) == IF node_id \in DOMAIN adj THEN adj[node_id] ELSE {}

\* A never_referenced that counts incoming edge ids only.
NeverReferencedIncoming(s_nodes, s_in_adj, s_out_adj) ==
    {node_id \in DOMAIN s_nodes : Cardinality(AdjGet(s_in_adj, node_id)) = 0}

\* never_referenced(snapshot), as the set of the ids it lists
never_referenced(s_nodes, s_in_adj, s_out_adj) ==
    {node_id \in DOMAIN s_nodes :
        Cardinality(AdjGet(s_in_adj, node_id))
            + Cardinality(AdjGet(s_out_adj, node_id)) = 0}

(* ------------------------------------------------------------------ *)
(* Claims about GraphBuilder.build                                     *)
(* ------------------------------------------------------------------ *)

\* The records build has finished merging.
MergedRecords == {i \in DOMAIN records : i < ri}

\* Every canonical edge handed to build, as <<record, position>>.
EdgeSlots ==
    UNION {{<<i, j>> : j \in DOMAIN records[i].edges} : i \in DOMAIN records}

SlotEdge(x) == records[x[1]].edges[x[2]]

\* The canonical edges _add_edge has been called with so far.
AddedSlots ==
    {x \in EdgeSlots : x[1] < ri \/ (x[1] = ri /\ pc = "edges" /\ x[2] < k)}

\* C1: after every _add_edge call and in the returned snapshot, out_adj and
\* in_adj are consistent with edges: every edge is filed under its source and
\* under its target, and every id filed under a node is an edge that has that
\* node as its source (out_adj) or target (in_adj).
C1_AdjacencyConsistent ==
    /\ \A e \in DOMAIN edges :
          /\ e \in AdjGet(out_adj, edges[e].source)
          /\ e \in AdjGet(in_adj, edges[e].target)
    /\ \A n \in DOMAIN out_adj : \A e \in out_adj[n] :
          e \in DOMAIN edges /\ edges[e].source = n
    /\ \A n \in DOMAIN in_adj : \A e \in in_adj[n] :
          e \in DOMAIN edges /\ edges[e].target = n

\* The node ids some merged record described as a node.
DescribedIds ==
    UNION {{records[i].nodes[j].id : j \in DOMAIN records[i].nodes} :
              i \in MergedRecords}

IsPlaceholder(node, node_id) ==
    /\ node.id = node_id
    /\ node.label = node_id
    /\ node.type = "other"
    /\ node.layer = "other"

\* C2: once build has finished merging a record (and in the returned
\* snapshot), the source and the target of every edge are keys of nodes, and
\* an endpoint that no merged record described as a node is a placeholder:
\* type "other", layer "other", label equal to its id.
C2_EndpointsAreNodes ==
    pc \in {"loop", "done"} =>
        \A e \in DOMAIN edges : \A n \in {edges[e].source, edges[e].target} :
            /\ n \in DOMAIN nodes
            /\ n \notin DescribedIds => IsPlaceholder(nodes[n], n)

\* A returned snapshot with an edge between a described table and an endpoint
\* that only a placeholder stands for.
C2_Witness ==
    /\ pc = "done"
    /\ \E e \in DOMAIN edges :
          /\ edges[e].source \in DescribedIds
          /\ nodes[edges[e].source].type = "table"
          /\ edges[e].target \notin DescribedIds
          /\ IsPlaceholder(nodes[edges[e].target], edges[e].target)

\* A raw id that normalizes to the empty id: absent, or whitespace only.
EmptyId(raw) == raw = None \/ \A i \in DOMAIN raw : raw[i] \in Whitespace

DroppedRaw(edge) == EmptyId(edge.source) \/ EmptyId(edge.target)

\* The raw edges of an artifact that have two non-empty endpoints, in order.
KeptRaw(art) == SelectSeq(art.edges, LAMBDA edge : ~DroppedRaw(edge))

\* The endpoints, after normalization, of the kept raw edges of the artifacts
\* whose edges have all been added.
KeptEndpoints(field) ==
    UNION {{normalize_qri(KeptRaw(arts[i])[j][field]).cleaned :
               j \in DOMAIN KeptRaw(arts[i])} : i \in MergedRecords}

\* C3: a raw edge with an endpoint that normalizes to the empty id is dropped
\* and nothing of it is inserted.  The canonical edges of an artifact are its
\* other raw edges, one for one and in order, and edgesCount counts only
\* them; the artifact still has its record; no edge, adjacency key or node of
\* the snapshot has the empty id, and the snapshot holds only what the kept
\* edges and the described nodes put there.
C3_EmptyEndpointDropped ==
    /\ Len(records) = Len(arts)
    /\ \A i \in DOMAIN arts :
          LET kept == KeptRaw(arts[i])
              canonical == records[i].edges
          IN  /\ Len(canonical) = Len(kept)
              /\ records[i].app_info.edgesCount = Len(kept)
              /\ \A j \in DOMAIN kept :
                    /\ canonical[j].source = normalize_qri(kept[j].source).cleaned
                    /\ canonical[j].target = normalize_qri(kept[j].target).cleaned
                    /\ canonical[j].relation = map_relation(kept[j].relation)
    /\ \A e \in DOMAIN edges : edges[e].source # <<>> /\ edges[e].target # <<>>
    /\ pc \in {"loop", "done"} =>
          /\ DOMAIN out_adj = KeptEndpoints("source")
          /\ DOMAIN in_adj = KeptEndpoints("target")
          /\ DOMAIN nodes =
                DescribedIds \cup KeptEndpoints("source") \cup KeptEndpoints("target")
          /\ Cardinality(DOMAIN edges) <= Cardinality(AddedSlots)

\* A returned snapshot of an artifact that held a dropped edge and, after it,
\* an edge that was kept.
C3_Witness ==
    /\ pc = "done"
    /\ \E i \in DOMAIN arts :
          /\ Len(arts[i].edges) = 2
          /\ DroppedRaw(arts[i].edges[1])
          /\ ~DroppedRaw(arts[i].edges[2])
          /\ records[i].app_info.edgesCount = 1
          /\ records[i].edges[1].id \in DOMAIN edges

\* Two canonical edges of two artifacts with the same source, target,
\* relation and appId.
SameEdgePairs ==
    {p \in AddedSlots \X AddedSlots :
        /\ p[1][1] < p[2][1]
        /\ SlotEdge(p[1]).source = SlotEdge(p[2]).source
        /\ SlotEdge(p[1]).target = SlotEdge(p[2]).target
        /\ SlotEdge(p[1]).relation = SlotEdge(p[2]).relation
        /\ SlotEdge(p[1]).context.appId = SlotEdge(p[2]).context.appId}

\* C5: two canonical edges of two artifacts with equal (source, target,
\* relation, appId) get the same id; when they are the two edges added under
\* that id, they are one edge of the snapshot, filed once in out_adj (under
\* the source) and once in in_adj (under the target), with occurrences 2.
C5_EdgeIdentity ==
    \A p \in SameEdgePairs :
        LET a == SlotEdge(p[1])
            e == a.id
        IN  /\ SlotEdge(p[2]).id = e
            /\ {x \in AddedSlots : SlotEdge(x).id = e} = {p[1], p[2]} =>
                  /\ e \in DOMAIN edges
                  /\ edges[e].source = a.source
                  /\ edges[e].target = a.target
                  /\ edges[e].relation = a.relation
                  /\ edges[e].context.occurrences = 2
                  /\ {n \in DOMAIN out_adj : e \in out_adj[n]} = {a.source}
                  /\ {n \in DOMAIN in_adj : e \in in_adj[n]} = {a.target}

\* A returned snapshot where two artifacts contributed the same edge, and
\* nothing else was added under its id.
C5_Witness ==
    /\ pc = "done"
    /\ \E p \in SameEdgePairs :
          /\ {x \in AddedSlots : SlotEdge(x).id = SlotEdge(p[1]).id} = {p[1], p[2]}
          /\ edges[SlotEdge(p[1]).id].context.occurrences = 2

\* Two canonical LOAD edges with the same endpoints, from different apps.
TwoAppPairs ==
    {p \in AddedSlots \X AddedSlots :
        /\ SlotEdge(p[1]).source = SlotEdge(p[2]).source
        /\ SlotEdge(p[1]).target = SlotEdge(p[2]).target
        /\ SlotEdge(p[1]).relation = SlotEdge(p[2]).relation
        /\ SlotEdge(p[1]).context.appId # SlotEdge(p[2]).context.appId}

\* C6: edges that agree on (source, target, relation) and differ in appId are
\* never merged: they have different ids, each is an edge of the snapshot
\* whose context lists its own app and not the other, and once the records
\* are merged their common endpoints are each one node, with both edges in
\* its adjacency and so not in never_referenced.
C6_AppsNotMerged ==
    \A p \in TwoAppPairs :
        LET a == SlotEdge(p[1])
            b == SlotEdge(p[2])
        IN  /\ a.id # b.id
            /\ a.id \in DOMAIN edges /\ b.id \in DOMAIN edges
            /\ a.context.appId \in Range(edges[a.id].context.appIds)
            /\ b.context.appId \notin Range(edges[a.id].context.appIds)
            /\ edges[a.id].relation = a.relation
            /\ {a.id, b.id} \subseteq AdjGet(out_adj, a.source)
            /\ {a.id, b.id} \subseteq AdjGet(in_adj, a.target)
            /\ pc \in {"loop", "done"} =>
                  /\ {a.source, a.target} \subseteq DOMAIN nodes
                  /\ {a.source, a.target} \cap never_referenced(nodes, in_adj, out_adj) = {}

\* app-1 and app-2 each load the table: the table is one node with the two
\* LOAD edges, one per app.
C6_Witness ==
    /\ pc = "done"
    /\ IdT \in DOMAIN nodes
    /\ nodes[IdT].type = "table"
    /\ Cardinality({e \in AdjGet(out_adj, IdT) : edges[e].relation = "LOAD"}) = 2
    /\ {edges[e].context.appIds : e \in AdjGet(out_adj, IdT)}
          = {<<App1.id>>, <<App2.id>>}
    /\ IdT \notin never_referenced(nodes, in_adj, out_adj)

(* ------------------------------------------------------------------ *)
(* Merging the same artifact twice                                     *)
(* ------------------------------------------------------------------ *)

\* Raw nodes of one artifact in the idempotence runs.
MaxIdemNodes == 2

\* Raw nodes whose keys all normalize to the id "a", with and without a label
\* of their own, and with metadata that classifies them differently.
IdemRawNodes ==
    [key : {IdA, <<" ", "a">>, <<"a", " ">>},
     label : {None, <<"x">>},
     metadata : {EmptyDict,
                 Dict1("type", <<"DA_APP">>),
                 Dict1("subtype", <<"TABLE">>),
                 Dict1("type", None)}]

\* The items of a JSON object: no key twice.
DistinctKeys(raw_nodes) ==
    \A i, j \in DOMAIN raw_nodes : i # j => raw_nodes[i].key # raw_nodes[j].key

IdemBodies ==
    {body \in [app : {App1},
               fetched_at : FetchTimes,
               nodes : SeqsUpTo(IdemRawNodes, MaxIdemNodes),
               edges : SeqsUpTo(RawEdges, MaxEdges)] : DistinctKeys(body.nodes)}

\* build([R, R]): the same record twice.
InitIdem ==
    \E body \in IdemBodies :
        InitOf(<<WithFile(body, FileName(1)), WithFile(body, FileName(1))>>)

SpecIdem == InitIdem /\ [][Next]_vars

\* The snapshot build([R]) returns for the first record.
Once == Build(<<records[1]>>)

SameNodesAndEdges(once) ==
    /\ nodes = once.nodes
    /\ DOMAIN edges = DOMAIN once.edges
    /\ \A e \in DOMAIN edges :
          /\ edges[e].id = once.edges[e].id
          /\ edges[e].source = once.edges[e].source
          /\ edges[e].target = once.edges[e].target
          /\ edges[e].relation = once.edges[e].relation

\* C4 as claimed: build([R, R]) returns the nodes and the edges of build([R]),
\* with occurrences 2 on every edge.
C4_IdempotentOccurrencesTwo ==
    pc = "done" =>
        /\ SameNodesAndEdges(Once)
        /\ \A e \in DOMAIN edges : edges[e].context.occurrences = 2

\* C4, amended: build([R, R]) returns the nodes (ids and attributes) and the
\* edges (ids, endpoints, relations) of build([R]), and every edge's
\* occurrences is twice its occurrences in build([R]): 2 for an edge that R
\* holds once.
C4_IdempotentOccurrencesDoubled ==
    pc = "done" =>
        /\ SameNodesAndEdges(Once)
        /\ \A e \in DOMAIN edges :
              edges[e].context.occurrences = 2 * Once.edges[e].context.occurrences

\* A returned snapshot of an artifact with two descriptions of one node, the
\* second with the better label, one edge held once and one held twice.
C4_Witness ==
    /\ pc = "done"
    /\ Len(records[1].nodes) = 2
    /\ nodes[IdA].label # records[1].nodes[1].label
    /\ nodes[IdA].label = records[1].nodes[2].label
    /\ \E e \in DOMAIN edges : edges[e].context.occurrences = 4

(* ------------------------------------------------------------------ *)
(* fetchers/subgraph.py: bfs_subgraph                                  *)
(* ------------------------------------------------------------------ *)

\* Edges of a query graph.
MaxGraphEdges == 3

\* Deepest non-negative depth asked for.
MaxDepth == 2

\* The subsets of S with at most n elements.
RECURSIVE SetsUpTo(_, _)
SetsUpTo(S, n) ==
    IF n = 0 THEN {{}}
    ELSE LET smaller == SetsUpTo(S, n - 1)
         IN  smaller \cup {p \cup {x} : p \in smaller, x \in S}

\* The elements of a set, one after another.
RECURSIVE SetToSeq(_)
SetToSeq(S) ==
    IF S = {} THEN <<>>
    ELSE LET x == CHOOSE y \in S : TRUE IN <<x>> \o SetToSeq(S \ {x})

Reverse(s) == [i \in DOMAIN s |-> s[Len(s) + 1 - i]]

IdB == <<"b">>
IdC == <<"c">>

\* The snapshot build returns for one artifact of app-1 with these raw edges.
SnapshotOf(raw_edges) ==
    Build(<<normalize_file([app |-> App1, fetched_at |-> 1, file |-> FileName(1),
                            nodes |-> <<>>, edges |-> raw_edges])>>)

\* Graphs over four node ids, "a|a" among them: chains, cycles, self-loops
\* and the pair of edges whose ids coincide, in either order.
BfsRawEdges == [source : {IdA, IdB, IdC, IdAA}, target : {IdA, IdB, IdC, IdAA},
                relation : {"LOAD"}]

BfsSnapshots ==
    UNION {{SnapshotOf(SetToSeq(E)), SnapshotOf(Reverse(SetToSeq(E)))} :
              E \in SetsUpTo(BfsRawEdges, MaxGraphEdges)}

\* A node id that no snapshot holds.
IdAbsent == <<"z">>

\* A snapshot at rest, no build running.
InitSnapshot(g) ==
    /\ arts = <<>>
    /\ records = <<>>
    /\ ri = 1
    /\ k = 1
    /\ nodes = g.nodes
    /\ edges = g.edges
    /\ out_adj = g.out_adj
    /\ in_adj = g.in_adj
    /\ apps = g.apps

InitBfs ==
    /\ \E g \in BfsSnapshots : InitSnapshot(g)
    /\ pc = "bfs_call"
    /\ start \in {IdA, IdB, IdC, IdAA, IdAbsent}
    /\ direction \in {"up", "down", "both"}
    /\ depth \in -1..MaxDepth
    /\ visited_nodes = {}
    /\ visited_edges = {}
    /\ frontier = {}
    /\ hops = 0
    /\ orphans = {}
    /\ CallIdle

\* The edges step(current) follows: out_adj for down and both, in_adj for up
\* and both.
StepOut(current) ==
    IF direction \in {"down", "both"}
    THEN UNION {AdjGet(out_adj, node_id) : node_id \in current} ELSE {}

StepIn(current) ==
    IF direction \in {"up", "both"}
    THEN UNION {AdjGet(in_adj, node_id) : node_id \in current} ELSE {}

\* A step that takes the target of every edge followed, of the incoming
\* edges too.
StepReachedTargets(current) ==
    {edges[edge_id].target : edge_id \in StepOut(current) \cup StepIn(current)}

\* A step that takes the source of every edge followed.
StepReachedSources(current) ==
    {edges[edge_id].source : edge_id \in StepOut(current) \cup StepIn(current)}

\* The nodes at the far end of the edges followed.
StepReached(current) ==
    {edges[edge_id].target : edge_id \in StepOut(current)}
        \cup {edges[edge_id].source : edge_id \in StepIn(current)}

\* A step that puts visited nodes on the next frontier again.
StepFrontierRevisit(current, visited) == StepReached(current)

\* step(current): the next frontier is what was reached and not visited
\* before.  The loops add to visited_nodes as they go, so a node is put on the
\* next frontier once whatever the order of iteration.
StepFrontier(current, visited) == StepReached(current) \ visited

\* A call that does not look whether start is a node.
BfsCallUnchecked ==
    /\ pc = "bfs_call"
    /\ visited_nodes' = {start}
    /\ visited_edges' = {}
    /\ frontier' = {start}
    /\ pc' = "bfs_loop"
    /\ UNCHANGED <<build_vars, snapshot_vars, start, direction, depth, hops, orphans, call_vars>>

\* if start not in nodes: return set(), set(); else the three locals.
BfsCall ==
    /\ pc = "bfs_call"
    /\ IF start \notin DOMAIN nodes
       THEN /\ visited_nodes' = {}
            /\ visited_edges' = {}
            /\ frontier' = {}
            /\ pc' = "bfs_done"
       ELSE /\ visited_nodes' = {start}
            /\ visited_edges' = {}
            /\ frontier' = {start}
            /\ pc' = "bfs_loop"
    /\ UNCHANGED <<build_vars, snapshot_vars, start, direction, depth, hops, orphans, call_vars>>

\* One frontier = step(frontier): of "while frontier" when depth < 0, of
\* "for _ in range(max(depth, 0))" with its break otherwise.
BfsStep ==
    /\ pc = "bfs_loop"
    /\ IF depth < 0 THEN frontier # {} ELSE hops < depth
    /\ visited_edges' = visited_edges \cup StepOut(frontier) \cup StepIn(frontier)
    /\ visited_nodes' = visited_nodes \cup StepFrontier(frontier, visited_nodes)
    /\ frontier' = StepFrontier(frontier, visited_nodes)
    /\ hops' = IF depth < 0 THEN hops ELSE hops + 1
    /\ pc' = IF depth >= 0 /\ StepFrontier(frontier, visited_nodes) = {}
             THEN "bfs_return" ELSE "bfs_loop"
    /\ UNCHANGED <<build_vars, snapshot_vars, start, direction, depth, orphans, call_vars>>

\* return visited_nodes, visited_edges
BfsReturn ==
    /\ \/ pc = "bfs_return"
       \/ pc = "bfs_loop" /\ (IF depth < 0 THEN frontier = {} ELSE hops >= depth)
    /\ pc' = "bfs_done"
    /\ UNCHANGED <<build_vars, snapshot_vars, query_vars, call_vars>>

NextBfs == BfsCall \/ BfsStep \/ BfsReturn

SpecBfs == InitBfs /\ [][NextBfs]_vars

\* The interpreter runs the call to its end.
SpecBfsFair == SpecBfs /\ WF_vars(NextBfs)

(* ------------------------------------------------------------------ *)
(* Claims about bfs_subgraph                                           *)
(* ------------------------------------------------------------------ *)

\* The edges that leave a node in the chosen direction: its outgoing edges
\* for down, its incoming edges for up, either for both.
EdgesAlong(n) ==
    (IF direction \in {"down", "both"} THEN AdjGet(out_adj, n) ELSE {})
        \cup (IF direction \in {"up", "both"} THEN AdjGet(in_adj, n) ELSE {})

\* The node an edge followed from n in the chosen direction leads to.
FarEnds(n) ==
    (IF direction \in {"down", "both"}
     THEN {edges[e].target : e \in AdjGet(out_adj, n)} ELSE {})
        \cup (IF direction \in {"up", "both"}
              THEN {edges[e].source : e \in AdjGet(in_adj, n)} ELSE {})

\* The nodes at distance <= d from start.
RECURSIVE Within(_)
Within(d) ==
    IF d <= 0 THEN {start}
    ELSE LET inner == Within(d - 1)
         IN  inner \cup UNION {FarEnds(n) : n \in inner}

\* The edges followed from the nodes at distance <= d.
EdgesFromWithin(d) ==
    IF d < 0 THEN {} ELSE UNION {EdgesAlong(n) : n \in Within(d)}

\* C7: for a start node of the snapshot and a depth d >= 0, bfs_subgraph
\* returns as nodes the nodes at distance <= d from start in the chosen
\* direction, start included, and as edges the edges followed in that
\* direction from the nodes at distance <= d - 1; depth 0 returns
\* ({start}, {}).
C7_BfsBoundedDepth ==
    (pc = "bfs_done" /\ start \in DOMAIN nodes /\ depth >= 0) =>
        /\ visited_nodes = Within(depth)
        /\ visited_edges = EdgesFromWithin(depth - 1)
        /\ start \in visited_nodes
        /\ depth = 0 => visited_nodes = {start} /\ visited_edges = {}

\* The chain a -> b -> c -> a|a: bfs(a, down, 2) returned {a, b, c} and the
\* two edges between them.
C7_Witness ==
    /\ pc = "bfs_done"
    /\ start = IdA /\ direction = "down" /\ depth = 2
    /\ Cardinality(DOMAIN edges) = 3
    /\ {<<edges[e].source, edges[e].target>> : e \in DOMAIN edges}
          = {<<IdA, IdB>>, <<IdB, IdC>>, <<IdC, IdAA>>}
    /\ visited_nodes = {IdA, IdB, IdC}
    /\ Cardinality(visited_edges) = 2

\* Everything that can be reached from start in the chosen direction: no
\* path without a repeated node is longer than the number of nodes.
Reachable == Within(Cardinality(DOMAIN nodes))

\* C8: with depth < 0 the call ends, on graphs with cycles and self-loops
\* too, and returns the nodes reachable from start in the chosen direction
\* and every edge followed from a reachable node.
C8_BfsFullReachability ==
    (pc = "bfs_call" /\ depth < 0 /\ start \in DOMAIN nodes)
        ~> (/\ pc = "bfs_done"
            /\ visited_nodes = Reachable
            /\ visited_edges = UNION {EdgesAlong(n) : n \in Reachable})

\* A full-reachability call that returned on a graph with a self-loop and a
\* cycle of two nodes, all of it visited.
C8_Witness ==
    /\ pc = "bfs_done"
    /\ depth < 0
    /\ start \in DOMAIN nodes
    /\ \E e \in DOMAIN edges : edges[e].source = edges[e].target
    /\ \E e, f \in DOMAIN edges :
          /\ edges[e].source # edges[e].target
          /\ edges[e].source = edges[f].target
          /\ edges[e].target = edges[f].source
    /\ Cardinality(visited_nodes) = 2
    /\ Cardinality(visited_edges) = 3

\* The adjacency indexes list, for every node, the edges that end and that
\* start at it.
AdjacencyMatchesEdges ==
    \A n \in DOMAIN nodes :
        /\ AdjGet(in_adj, n) = {e \in DOMAIN edges : edges[e].target = n}
        /\ AdjGet(out_adj, n) = {e \in DOMAIN edges : edges[e].source = n}

\* C28: when bfs_subgraph has returned on a snapshot whose adjacency lists,
\* for every node, the edges that start and that end at it, every edge id it
\* returns is a key of edges whose source and target are both among the
\* returned nodes, and every returned node is a key of nodes, whatever the
\* direction and the depth.
C28_BfsClosed ==
    (pc = "bfs_done" /\ AdjacencyMatchesEdges) =>
        /\ visited_nodes \subseteq DOMAIN nodes
        /\ visited_edges \subseteq DOMAIN edges
        /\ \A e \in visited_edges :
               edges[e].source \in visited_nodes /\ edges[e].target \in visited_nodes

\* The chain a -> b -> c -> a|a searched from b in both directions with
\* depth 1: the edges to a and to c were followed and their far ends
\* returned, c's edge to a|a was not.
C28_Witness ==
    /\ pc = "bfs_done"
    /\ AdjacencyMatchesEdges
    /\ start = IdB /\ direction = "both" /\ depth = 1
    /\ {<<edges[e].source, edges[e].target>> : e \in DOMAIN edges}
          = {<<IdA, IdB>>, <<IdB, IdC>>, <<IdC, IdAA>>}
    /\ visited_nodes = {IdA, IdB, IdC}
    /\ Cardinality(visited_edges) = 2

\* C9: for a start that is no key of nodes, bfs_subgraph returns two empty
\* sets at once, whatever the direction and the depth, and leaves the
\* snapshot as it was.
C9_BfsAbsentStart ==
    [][(pc = "bfs_call" /\ start \notin DOMAIN nodes) =>
          /\ pc' = "bfs_done"
          /\ visited_nodes' = {}
          /\ visited_edges' = {}
          /\ UNCHANGED snapshot_vars]_vars

\* A call with an absent start that returned, on a snapshot that has nodes
\* and edges.
C9_Witness ==
    /\ pc = "bfs_done"
    /\ start \notin DOMAIN nodes
    /\ DOMAIN edges # {}
    /\ depth > 0
    /\ visited_nodes = {}
    /\ visited_edges = {}

(* ------------------------------------------------------------------ *)
(* fetchers/heuristics.py: orphan_outputs                              *)
(* ------------------------------------------------------------------ *)

\* orphan_outputs(snapshot, depth=3)
DefaultOrphanDepth == 3

\* any(edges[eid]["relation"] == "STORE" for eid in in_adj.get(node_id, set()))
HasIncomingStore(node_id) ==
    \E eid \in AdjGet(in_adj, node_id) : edges[eid].relation = "STORE"

\* A search that ends at LOAD edges only.
IsLoadOnly(relation) == relation = "LOAD"

\* The relations that end the search of _has_downstream_load_depends.
IsLoadOrDepends(relation) == relation \in {"LOAD", "DEPENDS"}

\* The loop of _has_downstream_load_depends with `remaining` iterations left.
\* It returns True at the first LOAD or DEPENDS edge it meets, so the hop
\* answers True exactly when some edge out of the frontier is one.
RECURSIVE DownstreamLoop(_, _, _)
DownstreamLoop(front, visited, remaining) ==
    IF remaining <= 0 THEN FALSE
    ELSE LET followed == UNION {AdjGet(out_adj, node_id) : node_id \in front}
             next_frontier == {edges[edge_id].target : edge_id \in followed} \ visited
         IN  IF \E edge_id \in followed : IsLoadOrDepends(edges[edge_id].relation)
             THEN TRUE
             ELSE IF next_frontier = {} THEN FALSE
             ELSE DownstreamLoop(next_frontier, visited \cup next_frontier, remaining - 1)

\* _has_downstream_load_depends(start, snapshot, depth)
has_downstream_load_depends(node_id, d) ==
    DownstreamLoop({node_id}, {node_id}, IF d > 0 THEN d ELSE 0)

\* orphan_outputs(snapshot, depth), as the set of the ids it lists
orphan_outputs(d) ==
    {node_id \in DOMAIN nodes :
        /\ HasIncomingStore(node_id)
        /\ \/ Cardinality(AdjGet(out_adj, node_id)) = 0
           \/ ~has_downstream_load_depends(node_id, d)}

\* Graphs over three node ids with edges of every relation.
OrphanRawEdges == [source : {IdA, IdB, IdAA}, target : {IdA, IdB, IdAA},
                   relation : {"STORE", "LOAD", "depends", "reads"}]

OrphanSnapshots ==
    UNION {{SnapshotOf(SetToSeq(E)), SnapshotOf(Reverse(SetToSeq(E)))} :
              E \in SetsUpTo(OrphanRawEdges, MaxGraphEdges)}

InitOrphan ==
    /\ \E g \in OrphanSnapshots : InitSnapshot(g)
    /\ pc = "orphan_call"
    /\ depth \in -1..DefaultOrphanDepth
    /\ start = None
    /\ direction = "down"
    /\ visited_nodes = {}
    /\ visited_edges = {}
    /\ frontier = {}
    /\ hops = 0
    /\ orphans = {}
    /\ CallIdle

\* ids = orphan_outputs(snapshot, depth)
OrphanOutputs ==
    /\ pc = "orphan_call"
    /\ orphans' = orphan_outputs(depth)
    /\ pc' = "orphan_done"
    /\ UNCHANGED <<build_vars, snapshot_vars, start, direction, depth,
                   visited_nodes, visited_edges, frontier, hops, call_vars>>

NextOrphan == OrphanOutputs

SpecOrphan == InitOrphan /\ [][NextOrphan]_vars

\* Some path of at most d edges that starts at n and follows outgoing edges
\* ends with a LOAD or DEPENDS edge.
RECURSIVE LoadOrDependsWithin(_, _)
LoadOrDependsWithin(n, d) ==
    /\ d >= 1
    /\ \E e \in AdjGet(out_adj, n) :
          \/ edges[e].relation \in {"LOAD", "DEPENDS"}
          \/ LoadOrDependsWithin(edges[e].target, d - 1)

\* C10: orphan_outputs(snapshot, depth) returns the nodes that have an
\* incoming STORE edge and either no outgoing edge or no LOAD or DEPENDS
\* edge within depth hops along outgoing edges; a node with an incoming
\* STORE edge and such an edge within depth hops is not returned.  The
\* search is a loop of at most depth iterations, on cyclic graphs too.
C10_OrphanOutputs ==
    pc = "orphan_done" =>
        orphans = {n \in DOMAIN nodes :
                      /\ \E e \in AdjGet(in_adj, n) : edges[e].relation = "STORE"
                      /\ \/ AdjGet(out_adj, n) = {}
                         \/ ~LoadOrDependsWithin(n, depth)}

\* A cycle b -STORE-> a -reads-> a|a -DEPENDS-> b searched with depth 2: a has
\* an incoming STORE edge and a DEPENDS edge two hops away, and is no orphan
\* output.
C10_Witness ==
    /\ pc = "orphan_done"
    /\ depth = 2
    /\ {<<edges[e].source, edges[e].relation, edges[e].target>> : e \in DOMAIN edges}
          = {<<IdB, "STORE", IdA>>, <<IdA, "OTHER", IdAA>>, <<IdAA, "DEPENDS", IdB>>}
    /\ ~has_downstream_load_depends(IdA, 1)
    /\ IdA \notin orphans

(* ------------------------------------------------------------------ *)
(* fetchers/heuristics.py: never_referenced and dead_ends              *)
(* ------------------------------------------------------------------ *)

\* A dead_ends that wants no outgoing edge at all.
DeadEndsNoOutgoing(s_nodes, s_edges, s_in_adj, s_out_adj) ==
    {node_id \in DOMAIN s_nodes :
        /\ \E eid \in AdjGet(s_in_adj, node_id) : s_edges[eid].relation = "LOAD"
        /\ AdjGet(s_out_adj, node_id) = {}}

\* dead_ends(snapshot), as the set of the ids it lists
dead_ends(s_nodes, s_edges, s_in_adj, s_out_adj) ==
    {node_id \in DOMAIN s_nodes :
        /\ \E eid \in AdjGet(s_in_adj, node_id) : s_edges[eid].relation = "LOAD"
        /\ ~\E eid \in AdjGet(s_out_adj, node_id) : s_edges[eid].relation = "STORE"}

\* Graphs over three node ids with LOAD, STORE and other edges, with or
\* without a node that no edge touches.
HeurRawEdges == [source : {IdA, IdB, IdAA}, target : {IdA, IdB, IdAA},
                 relation : {"LOAD", "store", "reads"}]

HeurRawNodes == {<<>>, <<[key |-> IdC, label |-> None, metadata |-> EmptyDict]>>}

HeurSnapshotOf(raw_nodes, raw_edges) ==
    Build(<<normalize_file([app |-> App1, fetched_at |-> 1, file |-> FileName(1),
                            nodes |-> raw_nodes, edges |-> raw_edges])>>)

HeurSnapshots ==
    UNION {{HeurSnapshotOf(N, SetToSeq(E)), HeurSnapshotOf(N, Reverse(SetToSeq(E)))} :
              N \in HeurRawNodes, E \in SetsUpTo(HeurRawEdges, MaxGraphEdges)}

InitHeur ==
    /\ \E g \in HeurSnapshots : InitSnapshot(g)
    /\ pc = "heuristic_call"
    /\ QueryIdle

\* ids = never_referenced(snapshot)
NeverReferenced ==
    /\ pc = "heuristic_call"
    /\ ids' = never_referenced(nodes, in_adj, out_adj)
    /\ pc' = "never_referenced_done"
    /\ UNCHANGED <<build_vars, snapshot_vars, query_vars, fi, skipped_files, rows_vars,
                   unit_vars>>

\* ids = dead_ends(snapshot)
DeadEnds ==
    /\ pc = "heuristic_call"
    /\ ids' = dead_ends(nodes, edges, in_adj, out_adj)
    /\ pc' = "dead_ends_done"
    /\ UNCHANGED <<build_vars, snapshot_vars, query_vars, fi, skipped_files, rows_vars,
                   unit_vars>>

NextHeur == NeverReferenced \/ DeadEnds

SpecHeur == InitHeur /\ [][NextHeur]_vars

\* C11: dead_ends(snapshot) returns exactly the nodes with an incoming edge
\* of relation LOAD and no outgoing edge of relation STORE, whatever other
\* outgoing edges they have: by the edges the indexes file under the node,
\* and, where the indexes agree with the edges, by the edges' own endpoints.
C11_DeadEnds ==
    pc = "dead_ends_done" =>
        /\ \A n \in DOMAIN nodes :
              n \in ids <=>
                 /\ "LOAD" \in {edges[e].relation : e \in AdjGet(in_adj, n)}
                 /\ "STORE" \notin {edges[e].relation : e \in AdjGet(out_adj, n)}
        /\ ids \subseteq DOMAIN nodes
        /\ AdjacencyMatchesEdges =>
              ids = {n \in DOMAIN nodes :
                        /\ \E e \in DOMAIN edges :
                              edges[e].target = n /\ edges[e].relation = "LOAD"
                        /\ \A e \in DOMAIN edges :
                              edges[e].source = n => edges[e].relation # "STORE"}

\* b -LOAD-> a -reads-> a|a -STORE-> b: a is a dead end although it has an
\* outgoing edge; a|a has no incoming LOAD edge.
C11_Witness ==
    /\ pc = "dead_ends_done"
    /\ AdjacencyMatchesEdges
    /\ \E e, f, g \in DOMAIN edges :
          /\ edges[e].relation = "LOAD" /\ edges[e].target = IdA
          /\ edges[f].relation = "OTHER" /\ edges[f].source = IdA
          /\ edges[g].relation = "STORE" /\ edges[g].target = IdB
             /\ edges[g].source = IdAA
    /\ ids = {IdA}

\* C12: never_referenced(snapshot) returns exactly the nodes whose incoming
\* plus outgoing edge ids number 0; no endpoint of an edge, of a self-loop
\* either, is returned.
C12_NeverReferenced ==
    pc = "never_referenced_done" =>
        /\ ids = {n \in DOMAIN nodes :
                     AdjGet(in_adj, n) = {} /\ AdjGet(out_adj, n) = {}}
        /\ \A e \in DOMAIN edges :
              edges[e].source \notin ids /\ edges[e].target \notin ids

\* A snapshot with a self-loop and a node that no edge touches: only that
\* node is returned.
C12_Witness ==
    /\ pc = "never_referenced_done"
    /\ \E e \in DOMAIN edges : edges[e].source = IdA /\ edges[e].target = IdA
    /\ IdC \in DOMAIN nodes
    /\ ids = {IdC}

(* ------------------------------------------------------------------ *)
(* Batch loading: load_lineage_records, build_snapshot_from_payloads   *)
(* ------------------------------------------------------------------ *)

\* Artifacts of a batch.
MaxFiles == 3

\* str(exc) of the exception normalize_file raises on an artifact, None when
\* it returns.  art.json tells what the file holds: "invalid" is no JSON
\* (json.loads raises), "array" is JSON but no object (the ValueError),
\* "app_string" is an object whose "app" is a string (app.get raises).
normalize_file_raises(art) ==
    CASE art.json = "invalid" -> <<"Expecting value">>
      [] art.json = "array" -> <<"lineage artifact must be a JSON object">>
      [] art.json = "app_string" -> <<"'str' object has no attribute 'get'">>
      [] OTHER -> None

\* normalize_payload(payload, file_name=file_name): the normalization routine
\* of normalize_file on a payload already in memory.
normalize_payload(payload, file_name) ==
    normalize_file([app |-> payload.app, fetched_at |-> payload.fetched_at,
                    file |-> file_name, nodes |-> payload.nodes,
                    edges |-> payload.edges])

\* str(exc) of the exception normalize_payload raises, None when it returns.
normalize_payload_raises(payload) ==
    IF payload.json = "app_string"
    THEN <<"'str' object has no attribute 'get'">> ELSE None

\* str(payload.get("_artifactFileName") or payload.get("fileName")
\*     or f"in-memory-{idx}.json"); payload.file is its _artifactFileName, and
\* the payloads carry no fileName.
PayloadFileName(payload, idx) ==
    IF ~Falsy(payload.file) THEN payload.file ELSE <<"in-memory-", idx, ".json">>

\* Well-formed artifacts of two apps, and the malformed ones.
LoadEdges ==
    {[source |-> IdT, target |-> IdA, relation |-> "LOAD"],
     [source |-> IdA, target |-> IdB, relation |-> "STORE"]}

GoodBodies ==
    [json : {"object"}, app : {App1, App2}, fetched_at : FetchTimes,
     nodes : SeqsUpTo({[key |-> IdC, label |-> None, metadata |-> EmptyDict]}, 1),
     edges : SeqsUpTo(LoadEdges, 1)]

BadBody(kind) ==
    [json |-> kind, app |-> App1, fetched_at |-> 1, nodes |-> <<>>, edges |-> <<>>]

FileBodies == GoodBodies \cup {BadBody("invalid"), BadBody("array"), BadBody("app_string")}

\* The collector of the fetch step holds objects, each with its
\* _artifactFileName.
PayloadBodies == GoodBodies \cup {BadBody("app_string")}

Named(bodies) ==
    [i \in DOMAIN bodies |->
        [json |-> bodies[i].json, app |-> bodies[i].app,
         fetched_at |-> bodies[i].fetched_at, file |-> FileName(i),
         nodes |-> bodies[i].nodes, edges |-> bodies[i].edges]]

InitBatch(artifacts, entry) ==
    /\ arts = artifacts
    /\ records = <<>>
    /\ ri = 1
    /\ pc = entry
    /\ k = 1
    /\ nodes = EmptyDict
    /\ edges = EmptyDict
    /\ out_adj = EmptyDict
    /\ in_adj = EmptyDict
    /\ apps = EmptyDict
    /\ QueryIdle

InitLoad ==
    \/ \E bodies \in SeqsUpTo(FileBodies, MaxFiles) :
          InitBatch(Named(bodies), "load_files")
    \/ \E bodies \in SeqsUpTo(PayloadBodies, MaxFiles) :
          InitBatch(Named(bodies), "load_payloads")

\* A loop that records the artifact that raised and loads no more.
LoadFileStop ==
    /\ pc = "load_files"
    /\ fi <= Len(arts)
    /\ IF normalize_file_raises(arts[fi]) # None
       THEN /\ skipped_files' = DictSet(skipped_files, arts[fi].file,
                                        normalize_file_raises(arts[fi]))
            /\ fi' = Len(arts) + 1
            /\ UNCHANGED records
       ELSE /\ records' = Append(records, normalize_file(arts[fi]))
            /\ fi' = fi + 1
            /\ UNCHANGED skipped_files
    /\ UNCHANGED <<arts, ri, k, pc, snapshot_vars, query_vars, ids, rows_vars, unit_vars>>

\* One iteration of "for path in files" in load_lineage_records.
LoadFile ==
    /\ pc = "load_files"
    /\ fi <= Len(arts)
    /\ IF normalize_file_raises(arts[fi]) # None
       THEN /\ skipped_files' = DictSet(skipped_files, arts[fi].file,
                                        normalize_file_raises(arts[fi]))
            /\ UNCHANGED records
       ELSE /\ records' = Append(records, normalize_file(arts[fi]))
            /\ UNCHANGED skipped_files
    /\ fi' = fi + 1
    /\ UNCHANGED <<arts, ri, k, pc, snapshot_vars, query_vars, ids, rows_vars, unit_vars>>

\* One iteration of "for idx, payload in enumerate(payloads, start=1)" in
\* build_snapshot_from_payloads.
LoadPayload ==
    /\ pc = "load_payloads"
    /\ fi <= Len(arts)
    /\ IF normalize_payload_raises(arts[fi]) # None
       THEN /\ skipped_files' = DictSet(skipped_files, PayloadFileName(arts[fi], fi),
                                        normalize_payload_raises(arts[fi]))
            /\ UNCHANGED records
       ELSE /\ records' = Append(records,
                                 normalize_payload(arts[fi], PayloadFileName(arts[fi], fi)))
            /\ UNCHANGED skipped_files
    /\ fi' = fi + 1
    /\ UNCHANGED <<arts, ri, k, pc, snapshot_vars, query_vars, ids, rows_vars, unit_vars>>

\* snapshot = GraphBuilder().build(records, ...) once the loop is over.
CallBuild ==
    /\ pc \in {"load_files", "load_payloads"}
    /\ fi > Len(arts)
    /\ pc' = "loop"
    /\ UNCHANGED <<build_vars, snapshot_vars, query_vars, call_vars>>

NextLoad == LoadFile \/ LoadPayload \/ CallBuild \/ Next

SpecLoad == InitLoad /\ [][NextLoad]_vars

\* The well-formed artifacts of the batch, in order.
RECURSIVE ValidAlone(_)
ValidAlone(artifacts) ==
    IF artifacts = <<>> THEN <<>>
    ELSE (IF Head(artifacts).json = "object" THEN <<Head(artifacts)>> ELSE <<>>)
         \o ValidAlone(Tail(artifacts))

\* C13: a malformed artifact does not abort the batch.  When the build
\* returns, every artifact of the batch has been gone through, each malformed
\* one is recorded under its name with a reason and nothing else is, the
\* records are those of the well-formed artifacts in order, and the snapshot
\* is the one built from the well-formed artifacts alone.
C13_MalformedSkipped ==
    pc = "done" =>
        LET valid == ValidAlone(arts)
            alone == Build([i \in DOMAIN valid |-> normalize_file(valid[i])])
        IN  /\ fi = Len(arts) + 1
            /\ DOMAIN skipped_files
                  = {arts[i].file : i \in {j \in DOMAIN arts : arts[j].json # "object"}}
            /\ \A i \in DOMAIN arts :
                  arts[i].json # "object" => ~Falsy(skipped_files[arts[i].file])
            /\ records = [i \in DOMAIN valid |-> normalize_file(valid[i])]
            /\ nodes = alone.nodes
            /\ edges = alone.edges
            /\ out_adj = alone.out_adj
            /\ in_adj = alone.in_adj
            /\ apps = alone.apps

\* Batches of three with a malformed artifact in the middle, or first and
\* last, whose well-formed artifacts put edges into the snapshot.
C13_Witness ==
    /\ pc = "done"
    /\ Len(arts) = 3
    /\ Len(records) \in {1, 2}
    /\ arts[2].json # "object" \/ (arts[1].json # "object" /\ arts[3].json # "object")
    /\ arts[Len(arts)].json = "object" \/ arts[2].json = "object"
    /\ edges # EmptyDict
    /\ Cardinality(DOMAIN skipped_files) = 3 - Len(records)

(* ------------------------------------------------------------------ *)
(* app/db_runtime_views.py: helpers of _build_snapshot_from_rows       *)
(* ------------------------------------------------------------------ *)

\* str(int): the project ids of the model.
IntStr(n) == IF n = 1 THEN "1" ELSE IF n = 2 THEN "2" ELSE "3"

\* str.strip()
RECURSIVE LStrip(_)
LStrip(s) == IF s # <<>> /\ Head(s) \in Whitespace THEN LStrip(Tail(s)) ELSE s

Strip(s) == Reverse(LStrip(Reverse(LStrip(s))))

\* The letters that [^a-z0-9]+ removes from a lower-cased token.
NonAlnum == {" ", "-", "_", ".", ":", "/", "://", "#", "|"}

IsAlnum(c) == c \notin NonAlnum

\* text.split("#", 1)[0]
BeforeHash(text) ==
    LET hashes == {i \in DOMAIN text : text[i] = "#"}
    IN  IF hashes = {} THEN text
        ELSE SubSeq(text, 1, (CHOOSE i \in hashes : \A j \in hashes : i <= j) - 1)

\* _qri_prefix_before_hash(value)
qri_prefix_before_hash(value) ==
    IF value = None \/ Strip(value) = <<>> THEN None
    ELSE LET prefix == Lower(Strip(BeforeHash(Strip(value))))
         IN  IF prefix = <<>> THEN None ELSE prefix

\* alias_map.get(token, token)
GroupAlias(token) ==
    IF token \in {<<"mssql">>, <<"sqlservernativeclient">>} THEN <<"sqlserver">>
    ELSE IF token \in {<<"postgres">>, <<"postgresqlodbc">>} THEN <<"postgresql">>
    ELSE token

\* _normalize_group_token(value)
normalize_group_token(value) ==
    IF value = None THEN None
    ELSE LET token == SelectSeq(Lower(Strip(value)), IsAlnum)
         IN  IF token = <<>> THEN None ELSE GroupAlias(token)

\* The first match of r"qri:db:([^:/]+)://" at or after position from, as the
\* position of its "qri:db:", 0 if none; the engine is one letter.
DbMatchAt(text, i) ==
    /\ i + 2 <= Len(text)
    /\ LowerLetter(text[i]) = "qri:db:"
    /\ text[i + 1] \notin {":", "/", "://", "qri:db:"}
    /\ text[i + 2] = "://"

\* The first match of r"([a-z][a-z0-9+._-]{1,30})://": a word letter right
\* before "://".
SchemeMatchAt(text, i) ==
    /\ i + 1 <= Len(text)
    /\ text[i] \notin {" ", ":", "/", "://", "#", "|", "qri:db:", "qri:app:sense://"}
    /\ text[i + 1] = "://"

\* _extract_group_from_qri_like_text(value)
extract_group_from_qri_like_text(value) ==
    IF value = None THEN None
    ELSE LET db == {i \in DOMAIN value : DbMatchAt(value, i)}
             scheme == {i \in DOMAIN value : SchemeMatchAt(value, i)}
         IN  IF db # {}
             THEN normalize_group_token(
                      <<value[(CHOOSE i \in db : \A j \in db : i <= j) + 1]>>)
             ELSE IF scheme # {}
             THEN normalize_group_token(
                      <<value[CHOOSE i \in scheme : \A j \in scheme : i <= j]>>)
             ELSE None

\* _extract_db_group_from_node_id(node_id): re.match, at the start only
extract_db_group_from_node_id(node_id) ==
    IF Falsy(node_id) \/ ~DbMatchAt(node_id, 1) THEN None
    ELSE LET token == normalize_group_token(<<node_id[2]>>)
         IN  IF Falsy(token) THEN None ELSE <<"db:">> \o token

\* _normalize_db_group(value)
normalize_db_group(value) ==
    IF value = None THEN None
    ELSE LET text == Lower(Strip(value))
             token == IF text = <<>> THEN None
                      ELSE IF StartsWith(text, "db:")
                           THEN normalize_group_token(Tail(text))
                           ELSE normalize_group_token(text)
         IN  IF Falsy(token) THEN None ELSE <<"db:">> \o token

\* sorted(raw_tokens): the order of str on the tokens of the model.
TokenOrder == <<<<"mysql">>, <<"postgresql">>, <<"sqlserver">>>>

SortedTokens(tokens) == SelectSeq(TokenOrder, LAMBDA t : t \in tokens)

TypeKeys == {"type", "qType", "connectionType", "provider", "providerType",
             "databaseType", "dbType", "engine", "connector", "connectorType",
             "sourceType"}

StringKeys == {"connectionString", "connectionstring", "qConnectionString",
               "qConnectStatement", "connection"}

\* _connection_group_candidates(payload, row)
connection_group_candidates(payload, row) ==
    LET raw_tokens ==
            {normalize_group_token(Get(payload, key)) : key \in TypeKeys}
            \cup {extract_group_from_qri_like_text(Get(payload, key)) : key \in StringKeys}
            \cup (IF Falsy(row.connection_id) THEN {}
                  ELSE {extract_group_from_qri_like_text(row.connection_id)})
        sorted_tokens == SortedTokens({t \in raw_tokens : ~Falsy(t)})
    IN  [i \in DOMAIN sorted_tokens |-> <<"db:">> \o sorted_tokens[i]]

\* _connection_label(payload, row)
connection_label(payload, row) ==
    LET HasName(key) == ~Falsy(Get(payload, key)) /\ Strip(Get(payload, key)) # <<>>
    IN  IF HasName("qName") THEN Strip(Get(payload, "qName"))
        ELSE IF HasName("name") THEN Strip(Get(payload, "name"))
        ELSE IF HasName("connectionName") THEN Strip(Get(payload, "connectionName"))
        ELSE IF HasName("id") THEN Strip(Get(payload, "id"))
        ELSE IF Falsy(row.connection_id) THEN <<"connection">>
        ELSE row.connection_id

\* _connection_node_id(row): "qri:connection:qlik://" and the sha1 of
\* f"{project_id}|{connection_id}".  The digest is taken to be collision
\* free and is represented by the string digested; a project id holds no
\* "|", so that string determines both parts.
connection_node_id(row) ==
    <<"qri:connection:qlik://", IntStr(row.project_id), "|">>
        \o (IF Falsy(row.connection_id) THEN <<>> ELSE row.connection_id)

\* _node_record_from_payload(node_id, payload); meta is a dict or None, and
\* None is the empty function.
node_record_from_payload(node_id, payload) ==
    [id |-> IF ~Falsy(Get(payload, "id")) THEN Get(payload, "id") ELSE node_id,
     label |-> IF ~Falsy(Get(payload, "label")) THEN Get(payload, "label")
               ELSE IF ~Falsy(Get(payload, "id")) THEN Get(payload, "id")
               ELSE node_id,
     type |-> IF "type" \in DOMAIN payload THEN payload["type"] ELSE "other",
     subtype |-> Get(payload, "subtype"),
     group |-> Get(payload, "group"),
     layer |-> IF "layer" \in DOMAIN payload THEN payload["layer"] ELSE "other",
     meta |-> IF "meta" \in DOMAIN payload THEN payload["meta"] ELSE EmptyDict]

\* _edge_record_from_payload(edge_id, payload)
edge_record_from_payload(edge_id, payload) ==
    [id |-> IF ~Falsy(Get(payload, "id")) THEN Get(payload, "id") ELSE edge_id,
     source |-> IF ~Falsy(Get(payload, "source")) THEN Get(payload, "source") ELSE <<>>,
     target |-> IF ~Falsy(Get(payload, "target")) THEN Get(payload, "target") ELSE <<>>,
     relation |-> IF "relation" \in DOMAIN payload THEN payload["relation"] ELSE "OTHER",
     context |-> IF "context" \in DOMAIN payload THEN payload["context"] ELSE EmptyDict]

\* _is_source_db_node(record)
is_source_db_node(record) ==
    \/ record.type \in {"db", "table"}
    \/ ~Falsy(extract_db_group_from_node_id(record.id))

\* _node_db_group(record)
node_db_group(record) ==
    LET from_id == extract_db_group_from_node_id(record.id)
        from_group == normalize_db_group(record.group)
        MetaGroup(key) == extract_db_group_from_node_id(Get(record.meta, key))
    IN  IF ~Falsy(from_id) THEN from_id
        ELSE IF ~Falsy(from_group) THEN from_group
        ELSE IF ~Falsy(MetaGroup("id")) THEN MetaGroup("id")
        ELSE IF ~Falsy(MetaGroup("original_id")) THEN MetaGroup("original_id")
        ELSE IF ~Falsy(MetaGroup("qri")) THEN MetaGroup("qri")
        ELSE None

\* list(dict.fromkeys(keys)): the first occurrences, in order.
RECURSIVE Dedup(_)
Dedup(s) ==
    IF s = <<>> THEN <<>>
    ELSE LET front == Dedup(SubSeq(s, 1, Len(s) - 1))
         IN  IF s[Len(s)] \in Range(front) THEN front ELSE Append(front, s[Len(s)])

\* _app_lookup_keys_for_app_id(app_id)
app_lookup_keys_for_app_id(app_id) ==
    LET value == IF Falsy(app_id) THEN <<>> ELSE Strip(app_id)
    IN  IF value = <<>> THEN <<>>
        ELSE Dedup(<<value>>
                   \o (IF ~StartsWith(value, "qri:app:sense://")
                       THEN << <<"qri:app:sense://">> \o value >> ELSE <<>>)
                   \o (IF StartsWith(value, "qri:app:sense://") /\ Strip(Tail(value)) # <<>>
                       THEN <<Strip(Tail(value))>> ELSE <<>>))

RECURSIVE FlattenKeys(_)
FlattenKeys(raws) ==
    IF raws = <<>> THEN <<>>
    ELSE (IF Head(raws) = None THEN <<>> ELSE app_lookup_keys_for_app_id(Head(raws)))
         \o FlattenKeys(Tail(raws))

\* _node_app_lookup_candidates(row, record)
node_app_lookup_candidates(row, record) ==
    Dedup(FlattenKeys(<<row.app_id, Get(record.meta, "appId"), Get(record.meta, "app_id")>>
                      \o (IF record.type = "app"
                          THEN <<Get(record.meta, "id"), record.id>> ELSE <<>>)))

(* ------------------------------------------------------------------ *)
(* app/db_runtime_views.py: _build_snapshot_from_rows                  *)
(* ------------------------------------------------------------------ *)

\* dict.setdefault(key, value)
SetDefault(d, key, value) == IF key \in DOMAIN d THEN d ELSE DictSet(d, key, value)

\* d[key] = value when the condition holds
SetIf(d, cond, key, value) == IF cond THEN DictSet(d, key, value) ELSE d

\* d.setdefault(key, value) when the condition holds
SetDefaultIf(d, cond, key, value) == IF cond THEN SetDefault(d, key, value) ELSE d

\* "if app_info: ...": the record with what the app info of its app adds.
WithAppInfo(record, app_info) ==
    LET canonical_app_id == IF Falsy(app_info.appId) THEN <<>> ELSE app_info.appId
    IN  [record EXCEPT
            !.group = IF Falsy(@) /\ canonical_app_id # <<>> THEN canonical_app_id ELSE @,
            !.meta = SetDefaultIf(
                         SetDefaultIf(
                             SetDefaultIf(
                                 SetDefaultIf(@, canonical_app_id # <<>>,
                                              "appId", canonical_app_id),
                                 ~Falsy(app_info.appName), "appName", app_info.appName),
                             ~Falsy(app_info.spaceId), "spaceId", app_info.spaceId),
                         ~Falsy(app_info.spaceName), "spaceName", app_info.spaceName)]

\* "for app_key in ...: app_info = ...get((project_id, app_key)); if app_info:
\* break": the first candidate with an app info in the row's project decides.
AppInfoLookup(app_info_by_project_and_app, row, record, candidates) ==
    LET hits == {i \in DOMAIN candidates :
                    <<row.project_id, candidates[i]>> \in DOMAIN app_info_by_project_and_app}
    IN  IF hits = {} THEN record
        ELSE WithAppInfo(record,
                 app_info_by_project_and_app[
                     <<row.project_id,
                       candidates[CHOOSE i \in hits : \A j \in hits : i <= j]>>])

\* The record of a node row after the app lookup.
EnrichedRecord(app_info_by_project_and_app, row, record) ==
    AppInfoLookup(app_info_by_project_and_app, row, record,
                  node_app_lookup_candidates(row, record))

NodeRowRecord(app_info_by_project_and_app, row) ==
    EnrichedRecord(app_info_by_project_and_app, row,
                   node_record_from_payload(row.node_id, row.data))

\* What one node row enters in nodes, node_projects,
\* source_nodes_by_project_and_group and origin.
AddNodeRow(st, row, record, db_group, i) ==
    [nodes |-> DictSet(st.nodes, record.id, record),
     node_projects |-> AdjAdd(st.node_projects, record.id, row.project_id),
     source_nodes |->
         IF is_source_db_node(record) /\ ~Falsy(db_group)
         THEN AdjAdd(st.source_nodes, <<row.project_id, db_group>>, record.id)
         ELSE st.source_nodes,
     origin |-> DictSet(st.origin, record.id, i)]

NodeRowStep(st, row, record, i) == AddNodeRow(st, row, record, node_db_group(record), i)

\* "for row in node_rows", from row i on.  st holds nodes, node_projects,
\* source_nodes_by_project_and_group and origin.
RECURSIVE NodeRowsLoop(_, _, _, _)
NodeRowsLoop(st, node_rows, app_info_by_project_and_app, i) ==
    IF i > Len(node_rows) THEN st
    ELSE NodeRowsLoop(
             NodeRowStep(st, node_rows[i],
                         NodeRowRecord(app_info_by_project_and_app, node_rows[i]), i),
             node_rows, app_info_by_project_and_app, i + 1)

\* "for row in edge_rows", from row i on.  st holds nodes, edges, out_adj,
\* in_adj and node_projects.
RECURSIVE EdgeRowsLoop(_, _, _)
EdgeRowsLoop(st, edge_rows, i) ==
    IF i > Len(edge_rows) THEN st
    ELSE LET row == edge_rows[i]
             record == edge_record_from_payload(row.edge_id, row.data)
             Placeholder(nn, node_id) ==
                 IF node_id \in DOMAIN nn THEN nn
                 ELSE DictSet(nn, node_id,
                              node_record_from_payload(node_id, Dict1("id", node_id)))
         IN  IF record.source = <<>> \/ record.target = <<>>
             THEN EdgeRowsLoop(st, edge_rows, i + 1)
             ELSE EdgeRowsLoop(
                      [nodes |-> Placeholder(Placeholder(st.nodes, record.source),
                                             record.target),
                       edges |-> DictSet(st.edges, record.id, record),
                       out_adj |-> AdjAdd(st.out_adj, record.source, record.id),
                       in_adj |-> AdjAdd(st.in_adj, record.target, record.id),
                       node_projects |->
                           AdjAdd(AdjAdd(st.node_projects, record.source, row.project_id),
                                  record.target, row.project_id)],
                      edge_rows, i + 1)

\* The three lists gathered from qri_matched_apps: the stripped, non-empty
\* values of a key, first occurrences in order.
RECURSIVE MatchValues(_, _)
MatchValues(items, key) ==
    IF items = <<>> THEN <<>>
    ELSE LET front == MatchValues(SubSeq(items, 1, Len(items) - 1), key)
             raw == items[Len(items)][key]
             value == IF Falsy(raw) THEN <<>> ELSE Strip(raw)
         IN  IF value # <<>> /\ value \notin Range(front) THEN Append(front, value)
             ELSE front

\* The meta of the synthetic node of a data connection.
ConnectionMeta(row, matched) ==
    LET payload == row.data
        connection_id == IF Falsy(row.connection_id) THEN <<>> ELSE row.connection_id
        connection_qri_prefix ==
            qri_prefix_before_hash(IF ~Falsy(Get(payload, "qri")) THEN Get(payload, "qri")
                                   ELSE row.qri)
        groups == connection_group_candidates(payload, row)
        app_ids == MatchValues(matched, "appId")
        app_names == MatchValues(matched, "appName")
        root_ids == MatchValues(matched, "rootNodeId")
        Str(key) == ~Falsy(Get(payload, key)) /\ Strip(Get(payload, key)) # <<>>
        m0 == [x \in {"projectId", "connectionId"} |->
                  IF x = "projectId" THEN <<IntStr(row.project_id)>> ELSE connection_id]
        m1 == SetIf(m0, ~Falsy(connection_qri_prefix), "qriPrefix", connection_qri_prefix)
        m2 == SetIf(m1, root_ids # <<>>, "qriMatchMode", <<"prefix-before-hash">>)
        m3 == SetIf(m2, root_ids # <<>>, "qriMatchRootNodeIds", root_ids)
        m4 == SetIf(m3, root_ids # <<>> /\ app_ids # <<>>, "qriMatchAppIds", app_ids)
        m5 == SetIf(m4, root_ids # <<>> /\ app_names # <<>>, "qriMatchAppNames", app_names)
        m6 == SetIf(m5, root_ids # <<>> /\ Len(app_ids) = 1, "appId", app_ids[1])
        m7 == SetIf(m6, root_ids # <<>> /\ Len(app_names) = 1, "appName", app_names[1])
        m8 == SetIf(m7, ~Falsy(row.space_id), "spaceId", row.space_id)
        m9 == SetIf(m8, groups # <<>>, "connectionGroups", groups)
        m10 == SetDefaultIf(m9, Str("type"), "connectionType", Strip(Get(payload, "type")))
        m11 == SetDefaultIf(m10, Str("qType"), "qType", Strip(Get(payload, "qType")))
    IN  SetDefaultIf(m11, Str("connectorType"), "connectorType",
                     Strip(Get(payload, "connectorType")))

\* f"conn_{sha1(raw)}" of raw = f"{connection_node_id}|{target_node_id}|DEPENDS|{project_key}",
\* represented by what is digested.
GroupEdgeId(connection, target_node_id, project_key) ==
    <<"conn_">> \o connection \o <<"|">> \o target_node_id
        \o <<"|", "DEPENDS", "|", IntStr(project_key)>>

\* f"conn_qri_{sha1(raw)}", raw ending in "|qri-prefix-before-hash"
QriEdgeId(connection, target_node_id, project_key) ==
    <<"conn_qri_">> \o connection \o <<"|">> \o target_node_id
        \o <<"|", "DEPENDS", "|", IntStr(project_key), "|", "qri-prefix-before-hash">>

\* "for target_node_id in sorted(target_ids)": the edges inferred from the
\* connection's groups.  st holds edges, out_adj and in_adj; the targets are
\* distinct, so the order of the loop does not show in the maps.
RECURSIVE GroupTargetsLoop(_, _, _, _, _)
GroupTargetsLoop(st, targets, row, st_nodes, st_projects) ==
    IF targets = <<>> THEN st
    ELSE LET target_node_id == Head(targets)
             project_key == row.project_id
             connection == connection_node_id(row)
             edge_id == GroupEdgeId(connection, target_node_id, project_key)
         IN  IF \/ target_node_id = connection
                \/ project_key \notin AdjGet(st_projects, target_node_id)
                \/ edge_id \in DOMAIN st.edges
             THEN GroupTargetsLoop(st, Tail(targets), row, st_nodes, st_projects)
             ELSE GroupTargetsLoop(
                      [edges |-> DictSet(st.edges, edge_id,
                           [id |-> edge_id, source |-> connection,
                            target |-> target_node_id, relation |-> "DEPENDS",
                            context |->
                                [x \in {"projectId", "connectionId", "inferred"} |->
                                    IF x = "projectId" THEN <<IntStr(project_key)>>
                                    ELSE IF x = "connectionId"
                                    THEN (IF Falsy(row.connection_id) THEN <<>>
                                          ELSE row.connection_id)
                                    ELSE <<"True">>]]),
                       out_adj |-> AdjAdd(st.out_adj, connection, edge_id),
                       in_adj |-> AdjAdd(st.in_adj, target_node_id, edge_id)],
                      Tail(targets), row, st_nodes, st_projects)

\* An append that does not look for the candidate in the list.
AppendAlways(values, candidate) ==
    IF candidate # <<>> THEN Append(values, candidate) ELSE values

\* values.append(candidate) unless it is empty or already in the list
AppendNew(values, candidate) ==
    IF candidate # <<>> /\ candidate \notin Range(values) THEN Append(values, candidate)
    ELSE values

\* The list found under a key of a meta, [] when the key is absent.
MetaList(meta, key) == IF key \in DOMAIN meta THEN meta[key] ELSE <<>>

\* The node row that a target's record came from shares its meta's list under
\* the key with the record: the list appended to is the very list of the row.
SharedList(st, st_origin, target_node_id, key) ==
    /\ target_node_id \in DOMAIN st_origin
    /\ "meta" \in DOMAIN st.node_rows[st_origin[target_node_id]].data
    /\ key \in DOMAIN st.node_rows[st_origin[target_node_id]].data["meta"]

\* The rows after values was appended to the list under key of the target.
RowsAfterAppend(st, st_origin, target_node_id, key, values) ==
    IF SharedList(st, st_origin, target_node_id, key)
    THEN [st.node_rows EXCEPT
             ![st_origin[target_node_id]].data =
                 DictSet(@, "meta", DictSet(@["meta"], key, values))]
    ELSE st.node_rows

\* One of the two lists of the target's meta: "values = target_meta.get(key);
\* if not isinstance(values, list): values = []; target_meta[key] = values;
\* if candidate and candidate not in values: values.append(candidate)".
TouchList(st, st_origin, target_node_id, key, values) ==
    [st EXCEPT !.nodes[target_node_id].meta = DictSet(@, key, values),
               !.node_rows = RowsAfterAppend(st, st_origin, target_node_id, key, values)]

EnterInList(st, st_origin, target_node_id, key, candidate) ==
    TouchList(st, st_origin, target_node_id, key,
              AppendNew(MetaList(st.nodes[target_node_id].meta, key), candidate))

\* A QRI edge whose context does not say how the match was made.
AddQriEdgeUntagged(st, edge_id, connection, target_node_id, project_key, connection_id) ==
    IF edge_id \in DOMAIN st.edges THEN st
    ELSE [st EXCEPT
             !.edges = DictSet(@, edge_id,
                 [id |-> edge_id, source |-> connection,
                  target |-> target_node_id, relation |-> "DEPENDS",
                  context |->
                      [x \in {"projectId", "connectionId", "inferred"} |->
                          IF x = "projectId" THEN <<IntStr(project_key)>>
                          ELSE IF x = "connectionId" THEN connection_id
                          ELSE <<"True">>]]),
             !.out_adj = AdjAdd(@, connection, edge_id),
             !.in_adj = AdjAdd(@, target_node_id, edge_id)]

\* The DEPENDS edge of a QRI match, unless an edge of that id is there.
AddQriEdge(st, edge_id, connection, target_node_id, project_key, connection_id) ==
    IF edge_id \in DOMAIN st.edges THEN st
    ELSE [st EXCEPT
             !.edges = DictSet(@, edge_id,
                 [id |-> edge_id, source |-> connection,
                  target |-> target_node_id, relation |-> "DEPENDS",
                  context |->
                      [x \in {"projectId", "connectionId", "matchMode", "inferred"} |->
                          IF x = "projectId" THEN <<IntStr(project_key)>>
                          ELSE IF x = "connectionId" THEN connection_id
                          ELSE IF x = "matchMode" THEN <<"qri-prefix-before-hash">>
                          ELSE <<"True">>]]),
             !.out_adj = AdjAdd(@, connection, edge_id),
             !.in_adj = AdjAdd(@, target_node_id, edge_id)]

\* The body of the loop for one target that is a node of the project.
QriTarget(st, st_origin, target_node_id, row, connection, connection_id) ==
    AddQriEdge(
        EnterInList(
            EnterInList(st, st_origin, target_node_id, "sourceSystems",
                        connection_label(row.data, row)),
            st_origin, target_node_id, "sourceConnectionIds", connection_id),
        QriEdgeId(connection, target_node_id, row.project_id),
        connection, target_node_id, row.project_id, connection_id)

\* A loop over the matched roots that does not ask for the project.
RECURSIVE QriTargetsLoopAnyProject(_, _, _, _, _)
QriTargetsLoopAnyProject(st, targets, row, st_projects, st_origin) ==
    IF targets = <<>> THEN st
    ELSE IF \/ Head(targets) = connection_node_id(row)
            \/ Head(targets) \notin DOMAIN st.nodes
    THEN QriTargetsLoopAnyProject(st, Tail(targets), row, st_projects, st_origin)
    ELSE QriTargetsLoopAnyProject(
             QriTarget(st, st_origin, Head(targets), row, connection_node_id(row),
                       IF Falsy(row.connection_id) THEN <<>> ELSE row.connection_id),
             Tail(targets), row, st_projects, st_origin)

\* "for target_node_id in sorted(qri_match_root_node_ids)".  st holds nodes,
\* edges, out_adj, in_adj and node_rows; the targets are distinct, so the
\* order of the loop does not show in the maps.
RECURSIVE QriTargetsLoop(_, _, _, _, _)
QriTargetsLoop(st, targets, row, st_projects, st_origin) ==
    IF targets = <<>> THEN st
    ELSE IF \/ Head(targets) = connection_node_id(row)
            \/ Head(targets) \notin DOMAIN st.nodes
            \/ row.project_id \notin AdjGet(st_projects, Head(targets))
    THEN QriTargetsLoop(st, Tail(targets), row, st_projects, st_origin)
    ELSE QriTargetsLoop(
             QriTarget(st, st_origin, Head(targets), row, connection_node_id(row),
                       IF Falsy(row.connection_id) THEN <<>> ELSE row.connection_id),
             Tail(targets), row, st_projects, st_origin)

\* Rows of each kind handed to a call.
MaxNodeRows == 2
MaxEdgeRows == 1
MaxConnRows == 2

RootId == <<"qri:app:sense://", "app-1", "#", "root">>
RowTableId == <<"qri:db:", "postgres", "://", "t">>

\* The payload metas of the root node: fresh, with a list of another source
\* system, and with the lists a connection is already entered in.
RootMetas ==
    {Dict1("appId", <<"app-1">>),
     [x \in {"appId", "sourceSystems"} |->
         IF x = "appId" THEN <<"app-1">> ELSE << <<"OLD">> >>],
     [x \in {"sourceSystems", "sourceConnectionIds"} |->
         IF x = "sourceSystems" THEN << <<"ERP">> >> ELSE << <<"c1">> >>]}

NodeRowPool ==
    {[project_id |-> p, node_id |-> RootId, app_id |-> <<"app-1">>,
      data |-> [x \in {"id", "label", "type", "meta"} |->
                   CASE x = "id" -> RootId
                     [] x = "label" -> <<"Sales">>
                     [] x = "type" -> "app"
                     [] OTHER -> m]] : p \in {1, 2}, m \in RootMetas}
    \cup {[project_id |-> 1, node_id |-> RowTableId, app_id |-> None,
           data |-> [x \in {"type"} |-> "table"]]}

EdgeRowPool ==
    {[project_id |-> 1, edge_id |-> <<"e1">>,
      data |-> [x \in {"source", "target", "relation"} |->
                   CASE x = "source" -> RowTableId
                     [] x = "target" -> RootId
                     [] OTHER -> "LOAD"]],
     [project_id |-> 2, edge_id |-> <<"e2">>,
      data |-> [x \in {"source", "target"} |->
                   IF x = "source" THEN <<"x">> ELSE RootId]]}

ConnRowPool ==
    {[project_id |-> 1, connection_id |-> <<"c1">>, space_id |-> None, qri |-> None,
      data |-> [x \in {"qName", "type"} |->
                   IF x = "qName" THEN <<"ERP">> ELSE <<"PostgreSQL">>]],
     [project_id |-> 1, connection_id |-> <<"c2">>, space_id |-> <<"space-1">>,
      qri |-> <<"qri:app:sense://", "app-1", "#", "c">>,
      data |-> Dict1("qName", <<" ", "ERP", " ">>)],
     [project_id |-> 1, connection_id |-> <<"c2">>, space_id |-> None, qri |-> None,
      data |-> EmptyDict],
     [project_id |-> 2, connection_id |-> <<"c1">>, space_id |-> None, qri |-> None,
      data |-> Dict1("name", <<"CRM">>)]}

\* The matches of one connection: none, the root named twice (once padded),
\* or a root that is no node.
MatchItem(root) == [appId |-> <<"app-1">>, appName |-> <<"Sales">>, rootNodeId |-> root]

MatchPool ==
    {<<>>,
     <<MatchItem(RootId), MatchItem(<<" ">> \o RootId)>>,
     <<MatchItem(<<"qri:app:sense://", "gone">>)>>}

AppInfoPool ==
    {EmptyDict,
     [key \in {<<1, <<"app-1">>>>, <<1, <<"qri:app:sense://", "app-1">>>>} |->
         [appId |-> <<"app-1">>, appName |-> <<"Sales">>, spaceId |-> <<"space-1">>,
          spaceName |-> None]]}

\* Rows are keyed by project and id in their tables.
DistinctRows(seq, Key(_)) ==
    \A i, j \in DOMAIN seq : i # j => Key(seq[i]) # Key(seq[j])

NodeKey(row) == <<row.project_id, row.node_id>>
ConnKey(row) == <<row.project_id, row.connection_id>>

RowsOf(n, e, c, m, a) ==
    [node_rows |-> n, edge_rows |-> e, data_connection_rows |-> c,
     app_info_by_project_and_app |-> a,
     connection_matches_by_project_and_connection |->
         [key \in {ConnKey(c[i]) : i \in {j \in DOMAIN c : m[j] # <<>>}} |->
             m[CHOOSE i \in DOMAIN c : ConnKey(c[i]) = key]]]

RowsIdle ==
    /\ node_projects = EmptyDict
    /\ source_nodes_by_project_and_group = EmptyDict
    /\ origin = EmptyDict
    /\ ci = 1
    /\ nodes = EmptyDict
    /\ edges = EmptyDict
    /\ out_adj = EmptyDict
    /\ in_adj = EmptyDict
    /\ apps = EmptyDict

\* The first lines of _build_snapshot_from_rows, called on rows no call has
\* seen yet.
InitRows ==
    /\ \E n \in {x \in SeqsUpTo(NodeRowPool, MaxNodeRows) : DistinctRows(x, NodeKey)},
          e \in SeqsUpTo(EdgeRowPool, MaxEdgeRows),
          c \in {x \in SeqsUpTo(ConnRowPool, MaxConnRows) : DistinctRows(x, ConnKey)},
          a \in AppInfoPool :
          \E m \in [DOMAIN c -> MatchPool] : rows = RowsOf(n, e, c, m, a)
    /\ pc = "node_rows"
    /\ run = 1
    /\ first = EmptyDict
    /\ RowsIdle
    /\ arts = <<>>
    /\ records = <<>>
    /\ ri = 1
    /\ k = 1
    /\ SearchIdle
    /\ ids = {}
    /\ fi = 1
    /\ skipped_files = EmptyDict
    /\ UnitIdle

\* for row in node_rows: ...
NodeRows ==
    /\ pc = "node_rows"
    /\ \E st \in {NodeRowsLoop([nodes |-> nodes, node_projects |-> node_projects,
                                source_nodes |-> source_nodes_by_project_and_group,
                                origin |-> origin],
                               rows.node_rows, rows.app_info_by_project_and_app, 1)} :
           /\ nodes' = st.nodes
           /\ node_projects' = st.node_projects
           /\ source_nodes_by_project_and_group' = st.source_nodes
           /\ origin' = st.origin
    /\ pc' = "edge_rows"
    /\ UNCHANGED <<build_vars, edges, out_adj, in_adj, apps, query_vars, ids, fi,
                   skipped_files, rows, ci, run, first, unit_vars>>

\* for row in edge_rows: ...
EdgeRows ==
    /\ pc = "edge_rows"
    /\ \E st \in {EdgeRowsLoop([nodes |-> nodes, edges |-> edges, out_adj |-> out_adj,
                                in_adj |-> in_adj, node_projects |-> node_projects],
                               rows.edge_rows, 1)} :
           /\ nodes' = st.nodes
           /\ edges' = st.edges
           /\ out_adj' = st.out_adj
           /\ in_adj' = st.in_adj
           /\ node_projects' = st.node_projects
    /\ pc' = "data_connection_rows"
    /\ ci' = 1
    /\ UNCHANGED <<build_vars, apps, query_vars, ids, fi, skipped_files, rows,
                   source_nodes_by_project_and_group, origin, run, first, unit_vars>>

\* qri_matched_apps = connection_matches_by_project_and_connection.get(
\*     (project_key, str(row.connection_id or "")), [])
MatchKey(row) ==
    <<row.project_id, IF Falsy(row.connection_id) THEN <<>> ELSE row.connection_id>>

qri_matched_apps(st_rows, row) ==
    IF MatchKey(row) \in DOMAIN st_rows.connection_matches_by_project_and_connection
    THEN st_rows.connection_matches_by_project_and_connection[MatchKey(row)]
    ELSE <<>>

\* nodes[connection_node_id] = {...}: the synthetic node of the connection.
ConnectionNode(row, connection_groups, matched) ==
    [id |-> connection_node_id(row),
     label |-> connection_label(row.data, row),
     type |-> "db",
     subtype |-> <<"CONNECTION">>,
     group |-> IF connection_groups # <<>> THEN connection_groups[1] ELSE None,
     layer |-> "extract",
     meta |-> ConnectionMeta(row, matched)]

\* target_ids: the source nodes of the project in one of the groups.
GroupTargets(st_sources, row, connection_groups) ==
    UNION {AdjGet(st_sources, <<row.project_id, connection_groups[i]>>) :
              i \in DOMAIN connection_groups}

\* One iteration of "for row in data_connection_rows or []".
ConnectionRow ==
    /\ pc = "data_connection_rows"
    /\ ci <= Len(rows.data_connection_rows)
    /\ \E row \in {rows.data_connection_rows[ci]} :
       \E connection_groups \in {connection_group_candidates(row.data, row)},
          matched \in {qri_matched_apps(rows, row)} :
       \E nodes1 \in {DictSet(nodes, connection_node_id(row),
                              ConnectionNode(row, connection_groups, matched))},
          projects1 \in {AdjAdd(node_projects, connection_node_id(row), row.project_id)} :
       \E grouped \in {GroupTargetsLoop(
                           [edges |-> edges, out_adj |-> out_adj, in_adj |-> in_adj],
                           SetToSeq(GroupTargets(source_nodes_by_project_and_group,
                                                 row, connection_groups)),
                           row, nodes1, projects1)} :
       \E linked \in {QriTargetsLoop(
                          [nodes |-> nodes1, edges |-> grouped.edges,
                           out_adj |-> grouped.out_adj, in_adj |-> grouped.in_adj,
                           node_rows |-> rows.node_rows],
                          MatchValues(matched, "rootNodeId"), row, projects1, origin)} :
           /\ nodes' = linked.nodes
           /\ edges' = linked.edges
           /\ out_adj' = linked.out_adj
           /\ in_adj' = linked.in_adj
           /\ node_projects' = projects1
           /\ rows' = [rows EXCEPT !.node_rows = linked.node_rows]
    /\ ci' = ci + 1
    /\ UNCHANGED <<build_vars, pc, apps, query_vars, ids, fi, skipped_files,
                   source_nodes_by_project_and_group, origin, run, first, unit_vars>>

\* return GraphSnapshot(nodes=nodes, edges=edges, out_adj=out_adj,
\*                      in_adj=in_adj, apps={}, files_loaded=0)
ReturnSnapshot ==
    /\ pc = "data_connection_rows"
    /\ ci > Len(rows.data_connection_rows)
    /\ pc' = "rows_returned"
    /\ first' = IF run = 1
                THEN [nodes |-> nodes, edges |-> edges, out_adj |-> out_adj,
                      in_adj |-> in_adj]
                ELSE first
    /\ UNCHANGED <<build_vars, snapshot_vars, query_vars, ids, fi, skipped_files, rows,
                   node_projects, source_nodes_by_project_and_group, origin, ci, run, unit_vars>>

\* The snapshot is rebuilt from the same rows.
CallAgain ==
    /\ pc = "rows_returned"
    /\ run = 1
    /\ run' = 2
    /\ pc' = "node_rows"
    /\ nodes' = EmptyDict
    /\ edges' = EmptyDict
    /\ out_adj' = EmptyDict
    /\ in_adj' = EmptyDict
    /\ node_projects' = EmptyDict
    /\ source_nodes_by_project_and_group' = EmptyDict
    /\ origin' = EmptyDict
    /\ ci' = 1
    /\ UNCHANGED <<build_vars, apps, query_vars, ids, fi, skipped_files, rows, first, unit_vars>>

NextRows == NodeRows \/ EdgeRows \/ ConnectionRow \/ ReturnSnapshot \/ CallAgain

SpecRows == InitRows /\ [][NextRows]_vars

\* No entry of the list occurs twice.
NoDuplicates(s) == \A i, j \in DOMAIN s : i # j => s[i] # s[j]

ProvenanceKeys == {"sourceSystems", "sourceConnectionIds"}

\* C14: when _build_snapshot_from_rows has run a second time on the rows of
\* its first run, the ids of the edges are those of the first run, and after
\* either run no node's meta.sourceSystems or meta.sourceConnectionIds holds
\* an entry twice.
C14_ReassemblyIdempotent ==
    pc = "rows_returned" =>
        /\ run = 2 => DOMAIN edges = DOMAIN first.edges
        /\ \A id \in DOMAIN nodes : \A key \in ProvenanceKeys :
               key \in DOMAIN nodes[id].meta => NoDuplicates(nodes[id].meta[key])

\* The second run has returned; two connections of the project matched the
\* root, both under the display name ERP, and each has its edge.
C14_Witness ==
    /\ pc = "rows_returned"
    /\ run = 2
    /\ RootId \in DOMAIN nodes
    /\ "sourceConnectionIds" \in DOMAIN nodes[RootId].meta
    /\ nodes[RootId].meta["sourceConnectionIds"] = << <<"c1">>, <<"c2">> >>
    /\ nodes[RootId].meta["sourceSystems"] = << <<"ERP">> >>
    /\ Cardinality({id \in DOMAIN edges : edges[id].target = RootId
                                          /\ edges[id].relation = "DEPENDS"}) = 2

\* Occurrences of x in a list.
Count(s, x) == Cardinality({i \in DOMAIN s : s[i] = x})

\* The node is named by a node row of the project or is an endpoint of one of
\* the project's edge rows.
InProject(node_id, project_id) ==
    \/ \E i \in DOMAIN rows.node_rows :
           /\ rows.node_rows[i].project_id = project_id
           /\ node_record_from_payload(rows.node_rows[i].node_id,
                                       rows.node_rows[i].data).id = node_id
    \/ \E i \in DOMAIN rows.edge_rows :
           /\ rows.edge_rows[i].project_id = project_id
           /\ node_id \in {Get(rows.edge_rows[i].data, "source"),
                           Get(rows.edge_rows[i].data, "target")}
           /\ ~Falsy(Get(rows.edge_rows[i].data, "source"))
           /\ ~Falsy(Get(rows.edge_rows[i].data, "target"))

\* The roots a connection row is matched to that are nodes of the snapshot in
\* the row's project.
MatchedRoots(row) ==
    {t \in Range(MatchValues(qri_matched_apps(rows, row), "rootNodeId")) :
        t \in DOMAIN nodes /\ InProject(t, row.project_id)}

\* The snapshot holds a DEPENDS edge from the connection's node to the root
\* whose context names the match mode.
HasQriEdge(row, t) ==
    \E id \in DOMAIN edges :
        /\ edges[id].source = connection_node_id(row)
        /\ edges[id].target = t
        /\ edges[id].relation = "DEPENDS"
        /\ Get(edges[id].context, "matchMode") = <<"qri-prefix-before-hash">>

\* C15: in the returned snapshot, for every connection row and every root it
\* is matched to that is a node of the row's project, there is a DEPENDS edge
\* from the connection's synthetic node to the root with context.matchMode
\* 'qri-prefix-before-hash', and the root's meta.sourceSystems holds the
\* connection's display name exactly once and its meta.sourceConnectionIds
\* the connection's id exactly once.
C15_QriPrefixInference ==
    pc = "rows_returned" =>
        \A i \in DOMAIN rows.data_connection_rows :
            \A t \in MatchedRoots(rows.data_connection_rows[i]) :
                LET row == rows.data_connection_rows[i]
                IN  /\ HasQriEdge(row, t)
                    /\ Count(MetaList(nodes[t].meta, "sourceSystems"),
                             connection_label(row.data, row)) = 1
                    /\ Count(MetaList(nodes[t].meta, "sourceConnectionIds"),
                             row.connection_id) = 1

\* A connection named ERP was matched to the root of its project, whose row
\* came with a list naming another source system.
C15_Witness ==
    /\ pc = "rows_returned"
    /\ run = 1
    /\ \E i \in DOMAIN rows.data_connection_rows :
           /\ RootId \in MatchedRoots(rows.data_connection_rows[i])
           /\ connection_label(rows.data_connection_rows[i].data,
                               rows.data_connection_rows[i]) = <<"ERP">>
    /\ nodes[RootId].meta["sourceSystems"] = << <<"OLD">>, <<"ERP">> >>

\* The groups of a connection row.
GroupsOf(row) == Range(connection_group_candidates(row.data, row))

\* The snapshot holds a DEPENDS edge from the connection's node to the node.
HasDependsEdge(row, t) ==
    \E id \in DOMAIN edges :
        /\ edges[id].source = connection_node_id(row)
        /\ edges[id].target = t
        /\ edges[id].relation = "DEPENDS"

\* C24: in the returned snapshot, every connection row has a DEPENDS edge
\* from its synthetic node to every node of the snapshot in the row's project
\* (named by a node row or an endpoint of an edge row of the project) whose
\* id encodes an engine of one of the connection's groups or whose group is
\* one of them, whatever the node's type.
C24_GroupInference ==
    pc = "rows_returned" =>
        \A i \in DOMAIN rows.data_connection_rows :
            \A t \in DOMAIN nodes :
                LET row == rows.data_connection_rows[i]
                IN  (/\ t # connection_node_id(row)
                     /\ InProject(t, row.project_id)
                     /\ \/ extract_db_group_from_node_id(t) \in GroupsOf(row)
                        \/ normalize_db_group(nodes[t].group) \in GroupsOf(row))
                    => HasDependsEdge(row, t)

\* The edges that inference created: those whose context says so.
InferredEdges == {id \in DOMAIN edges : "inferred" \in DOMAIN edges[id].context}

\* C29: at every point of _build_snapshot_from_rows, every edge created by
\* group or QRI-prefix inference starts at the synthetic node of a connection
\* row, has the relation DEPENDS, and ends at another node that is a key of
\* nodes and that a node row or an edge row of that connection's project
\* names.
C29_InferredWithinProject ==
    \A id \in InferredEdges :
        \E i \in DOMAIN rows.data_connection_rows :
            /\ edges[id].source = connection_node_id(rows.data_connection_rows[i])
            /\ edges[id].relation = "DEPENDS"
            /\ edges[id].target # edges[id].source
            /\ edges[id].target \in DOMAIN nodes
            /\ InProject(edges[id].target, rows.data_connection_rows[i].project_id)

\* A connection of project 1 and one of project 2 were both matched to the
\* root, which only project 1 has a row for: the first has its edge, the
\* second none.
C29_Witness ==
    /\ pc = "rows_returned"
    /\ Len(rows.data_connection_rows) = 2
    /\ rows.data_connection_rows[1].project_id = 1
    /\ rows.data_connection_rows[2].project_id = 2
    /\ \A i \in 1..2 :
           RootId \in Range(MatchValues(qri_matched_apps(rows, rows.data_connection_rows[i]),
                                        "rootNodeId"))
    /\ InProject(RootId, 1)
    /\ ~InProject(RootId, 2)
    /\ \E id \in InferredEdges :
           /\ edges[id].source = connection_node_id(rows.data_connection_rows[1])
           /\ edges[id].target = RootId
    /\ ~\E id \in DOMAIN edges :
           edges[id].source = connection_node_id(rows.data_connection_rows[2])

(* ------------------------------------------------------------------ *)
(* fetchers/qri_heuristics.py: normalize_qri on its own                *)
(* ------------------------------------------------------------------ *)

\* Letters of an identifier handed to normalize_qri.
MaxQriLen == 4

QriLetters == {"a", "b", " ", "\t"}

\* normalize_qri is about to be called on a string or on None.
InitQri ==
    /\ qri \in SeqsUpTo(QriLetters, MaxQriLen) \cup {None}
    /\ result = None
    /\ incoming = <<>>
    /\ mi = 1
    /\ pc = "normalize_qri_call"
    /\ arts = <<>>
    /\ records = <<>>
    /\ ri = 1
    /\ k = 1
    /\ RowsIdle
    /\ SearchIdle
    /\ ids = {}
    /\ fi = 1
    /\ skipped_files = EmptyDict
    /\ rows = EmptyDict
    /\ run = 0
    /\ first = EmptyDict

\* cleaned, original = normalize_qri(qri)
NormalizeQri ==
    /\ pc = "normalize_qri_call"
    /\ result' = normalize_qri(qri)
    /\ pc' = "normalize_qri_done"
    /\ UNCHANGED <<build_vars, snapshot_vars, query_vars, ids, fi, skipped_files,
                   rows_vars, qri, incoming, mi>>

\* normalize_qri(cleaned): the function applied to its own output.
NormalizeAgain ==
    /\ pc = "normalize_qri_done"
    /\ first' = [qri |-> qri, result |-> result]
    /\ qri' = result.cleaned
    /\ result' = normalize_qri(result.cleaned)
    /\ pc' = "normalize_qri_again"
    /\ UNCHANGED <<build_vars, snapshot_vars, query_vars, ids, fi, skipped_files, rows,
                   node_projects, source_nodes_by_project_and_group, origin, ci, run,
                   incoming, mi>>

NextQri == NormalizeQri \/ NormalizeAgain

SpecQri == InitQri /\ [][NextQri]_vars

\* The letter at i stays in the collapsed string: it is no whitespace, or it
\* is the first whitespace of a run that has a word before it and after it.
StaysAt(s, i) ==
    \/ s[i] \notin Whitespace
    \/ /\ i > 1
       /\ s[i - 1] \notin Whitespace
       /\ \E j \in (i + 1)..Len(s) : s[j] \notin Whitespace

\* s with every run of whitespace collapsed to one space and both ends trimmed.
Collapsed(s) ==
    LET kept == {i \in DOMAIN s : StaysAt(s, i)}
        At(n) == CHOOSE i \in kept : Cardinality({j \in kept : j <= i}) = n
    IN  [n \in 1..Cardinality(kept) |->
            IF s[At(n)] \in Whitespace THEN " " ELSE s[At(n)]]

\* C16: on a string, normalize_qri returns the string with every run of
\* whitespace collapsed to one space and both ends trimmed, together with the
\* input when the collapsed string differs from it and with None otherwise;
\* called on its own first component it returns that component and None.  On
\* None it returns the empty string and None.
C16_NormalizeQri ==
    /\ pc = "normalize_qri_done" /\ qri # None =>
           /\ result.cleaned = Collapsed(qri)
           /\ (result.cleaned # qri => result.original = qri)
           /\ (result.cleaned = qri => result.original = None)
    /\ pc = "normalize_qri_done" /\ qri = None =>
           result = [cleaned |-> <<>>, original |-> None]
    /\ pc = "normalize_qri_again" =>
           /\ qri = first.result.cleaned
           /\ result = [cleaned |-> qri, original |-> None]

\* A string with a run of a space and a tab between two words was collapsed,
\* came back with its original, and the second call changed nothing.
C16_Witness ==
    /\ pc = "normalize_qri_again"
    /\ first.qri = <<"a", " ", "\t", "b">>
    /\ first.result = [cleaned |-> <<"a", " ", "b">>, original |-> first.qri]
    /\ result = [cleaned |-> <<"a", " ", "b">>, original |-> None]

(* ------------------------------------------------------------------ *)
(* fetchers/graph_store.py: _merge_node, call by call                  *)
(* ------------------------------------------------------------------ *)

\* Canonical nodes of one id handed to _merge_node.
MaxMerges == 3

IdM == <<"t", "b", "l", "1">>

\* Raw nodes under the key IdM: without a label, with a label shorter than the
\* id, a dataset, a table with a longer label, a label with a qualifier, and a
\* QVD.  Two of them give "owner", one gives it as null.
MergeRawNodes ==
    {[label |-> None, metadata |-> EmptyDict],
     [label |-> <<"t">>, metadata |-> Dict1("owner", None)],
     [label |-> <<"o", "r", "d">>,
      metadata |-> [x \in {"type", "owner"} |->
                       IF x = "type" THEN <<"DATASET">> ELSE <<"u1">>]],
     [label |-> <<"o", "r", "d", "e", "r", "s">>,
      metadata |-> [x \in {"subtype", "owner"} |->
                       IF x = "subtype" THEN <<"TABLE">> ELSE <<"u2">>]],
     [label |-> <<"s", ".", "t">>, metadata |-> EmptyDict],
     [label |-> <<"a", ".qvd">>, metadata |-> Dict1("subtype", <<"VIEW">>)]}

\* build_node on each raw node, as normalize_file calls it.
CanonicalOf(raw) == [i \in DOMAIN raw |-> build_node(IdM, raw[i], App1)]

\* GraphBuilder.build is about to merge the canonical nodes of one id that
\* its records hold, in record order.
InitMerge ==
    /\ \E raw \in SeqsUpTo(MergeRawNodes, MaxMerges) : incoming = CanonicalOf(raw)
    /\ mi = 1
    /\ qri = None
    /\ result = None
    /\ pc = "merge_node_calls"
    /\ arts = <<>>
    /\ records = <<>>
    /\ ri = 1
    /\ k = 1
    /\ RowsIdle
    /\ SearchIdle
    /\ ids = {}
    /\ fi = 1
    /\ skipped_files = EmptyDict
    /\ rows = EmptyDict
    /\ run = 0
    /\ first = EmptyDict

\* self._merge_node(nodes, node)
MergeNodeCall ==
    /\ pc = "merge_node_calls"
    /\ mi <= Len(incoming)
    /\ nodes' = MergeNode(nodes, incoming[mi])
    /\ mi' = mi + 1
    /\ UNCHANGED <<build_vars, pc, edges, out_adj, in_adj, apps, query_vars, ids, fi,
                   skipped_files, rows_vars, qri, result, incoming>>

NextMerge == MergeNodeCall

SpecMerge == InitMerge /\ [][NextMerge]_vars

\* The step is a call of _merge_node on an id that is stored already.
RepeatMerge == mi' = mi + 1 /\ IdM \in DOMAIN nodes

\* C17 as stated: a repeat merge changes the stored label only to an incoming
\* label that is non-empty, is not the bare id and is strictly longer than
\* the stored one.
C17_LabelOnlyIfLonger ==
    [][RepeatMerge /\ nodes'[IdM].label # nodes[IdM].label =>
           /\ nodes'[IdM].label = incoming[mi].label
           /\ ~Falsy(incoming[mi].label)
           /\ incoming[mi].label # IdM
           /\ Len(incoming[mi].label) > Len(nodes[IdM].label)]_vars

\* C17: on a repeat merge the stored label becomes the incoming label when
\* that label is non-empty, is not the bare id, and either the stored label
\* is empty or the bare id or the incoming label is strictly longer than it;
\* in every other case the stored label is unchanged.
C17_LabelReplaced ==
    [][RepeatMerge =>
           nodes'[IdM].label =
               IF /\ ~Falsy(incoming[mi].label)
                  /\ incoming[mi].label # IdM
                  /\ \/ Falsy(nodes[IdM].label)
                     \/ nodes[IdM].label = IdM
                     \/ Len(incoming[mi].label) > Len(nodes[IdM].label)
               THEN incoming[mi].label
               ELSE nodes[IdM].label]_vars

\* The node was stored under its bare id, took a label shorter than the id,
\* and then kept it against a label of the same length.
C17_Witness ==
    /\ mi = 4
    /\ incoming[1].label = IdM
    /\ incoming[2].label = <<"o", "r", "d">>
    /\ incoming[3].label = <<"s", ".", "t">>
    /\ nodes[IdM].label = <<"o", "r", "d">>

\* C18: in every merge of a stored id, the type changes only from "other" to
\* the incoming node's type, which is not "other"; the layer changes only
\* from "other" (a stored layer is never unset) to the incoming node's layer;
\* group and subtype change only from unset to the incoming node's value.
C18_UpgradeOnly ==
    [][RepeatMerge =>
           /\ nodes'[IdM].type # nodes[IdM].type =>
                  /\ nodes[IdM].type = "other"
                  /\ nodes'[IdM].type = incoming[mi].type
                  /\ nodes'[IdM].type # "other"
           /\ nodes'[IdM].layer # nodes[IdM].layer =>
                  /\ nodes[IdM].layer = "other"
                  /\ nodes'[IdM].layer = incoming[mi].layer
           /\ nodes'[IdM].group # nodes[IdM].group =>
                  /\ Falsy(nodes[IdM].group)
                  /\ nodes'[IdM].group = incoming[mi].group
           /\ nodes'[IdM].subtype # nodes[IdM].subtype =>
                  /\ Falsy(nodes[IdM].subtype)
                  /\ nodes'[IdM].subtype = incoming[mi].subtype]_vars

\* A node stored as "other" became a dataset and then stayed one, with its
\* layer, when a QVD with another subtype and group was merged.
C18_Witness ==
    /\ mi = 4
    /\ incoming[1].type = "other"
    /\ incoming[2].type = "dataset"
    /\ incoming[3].type = "qvd"
    /\ nodes[IdM].type = "dataset"
    /\ nodes[IdM].layer = "transform"
    /\ nodes[IdM].subtype = <<"VIEW">>
    /\ nodes[IdM].group = <<"qvd">>

\* The nodes merged so far that offer a non-null value for the key.
Writers(key) ==
    {j \in 1..(mi - 1) : key \in DOMAIN incoming[j].meta /\ incoming[j].meta[key] # None}

\* The keys offered so far.
OfferedKeys == UNION {DOMAIN incoming[j].meta : j \in 1..(mi - 1)}

\* C19: after any number of merges of an id, the node's meta holds every key
\* offered, with the first non-null value offered for it in record order
\* (null when none was), and no merge changes a non-null value or removes a
\* key.
C19_MetaFirstWriterWins ==
    /\ [](mi > 1 =>
             /\ DOMAIN nodes[IdM].meta = OfferedKeys
             /\ \A key \in OfferedKeys :
                    nodes[IdM].meta[key] =
                        IF Writers(key) = {} THEN None
                        ELSE incoming[CHOOSE j \in Writers(key) :
                                          \A h \in Writers(key) : j <= h].meta[key])
    /\ [][RepeatMerge =>
              \A key \in DOMAIN nodes[IdM].meta :
                  /\ key \in DOMAIN nodes'[IdM].meta
                  /\ nodes[IdM].meta[key] # None =>
                         nodes'[IdM].meta[key] = nodes[IdM].meta[key]]_vars

\* "owner" was offered as null, then by u1, then by u2: u1 stays.
C19_Witness ==
    /\ mi = 4
    /\ Get(incoming[1].meta, "owner") = None /\ "owner" \in DOMAIN incoming[1].meta
    /\ Get(incoming[2].meta, "owner") = <<"u1">>
    /\ Get(incoming[3].meta, "owner") = <<"u2">>
    /\ nodes[IdM].meta["owner"] = <<"u1">>

(* ------------------------------------------------------------------ *)
(* fetchers/graph_store.py: _add_edge, call by call                    *)
(* ------------------------------------------------------------------ *)

\* Canonical edges of one id handed to _add_edge.
MaxEdgeMerges == 4

\* fetched_at of an artifact: an instant, as datetime.fromisoformat reads the
\* strings that the fetch step writes; 0 is an artifact without fetched_at.
EdgeFetchTimes == {0, 1, 2, 3}

MergedRawEdge == [source |-> IdA, target |-> IdAA, relation |-> "LOAD"]

\* build_edge on the raw edge in the artifact fetched at each of the times.
CanonicalEdgeAt(fetched_at) ==
    build_edge(MergedRawEdge, App1.id, App1.name, fetched_at, <<"lineage.json">>)[1]

EdgeM == CanonicalEdgeAt(0).id

\* GraphBuilder.build is about to add the canonical edges of one id that its
\* records hold, in record order.
InitAddEdge ==
    /\ \E times \in SeqsUpTo(EdgeFetchTimes, MaxEdgeMerges) :
           incoming = [i \in DOMAIN times |-> CanonicalEdgeAt(times[i])]
    /\ mi = 1
    /\ qri = None
    /\ result = None
    /\ pc = "add_edge_calls"
    /\ arts = <<>>
    /\ records = <<>>
    /\ ri = 1
    /\ k = 1
    /\ RowsIdle
    /\ SearchIdle
    /\ ids = {}
    /\ fi = 1
    /\ skipped_files = EmptyDict
    /\ rows = EmptyDict
    /\ run = 0
    /\ first = EmptyDict

\* self._add_edge(edges, out_adj, in_adj, edge)
AddEdgeCall ==
    /\ pc = "add_edge_calls"
    /\ mi <= Len(incoming)
    /\ edges' = AddEdgeEdges(edges, incoming[mi])
    /\ out_adj' = AddEdgeOut(out_adj, incoming[mi])
    /\ in_adj' = AddEdgeIn(in_adj, incoming[mi])
    /\ mi' = mi + 1
    /\ UNCHANGED <<build_vars, pc, nodes, apps, query_vars, ids, fi, skipped_files,
                   rows_vars, qri, result, incoming>>

NextAddEdge == AddEdgeCall

SpecAddEdge == InitAddEdge /\ [][NextAddEdge]_vars

\* The timestamps of the contributions merged so far that carry one.
Stamps == {incoming[j].context.fetched_at : j \in 1..(mi - 1)} \ {0}

ContextAppNames == {<<"Sales">>, <<"Retail">>, <<>>}

ContextFiles == {<<"f1.json">>, <<"f2.json">>}

\* build_edge on the raw edge in an artifact of the app under that name.
CanonicalEdgeIn(app_name, file_name) ==
    build_edge(MergedRawEdge, App1.id, app_name, 1, file_name)[1]

\* GraphBuilder.build is about to add the canonical edges of one id found in
\* artifacts that name the app differently.
InitContext ==
    /\ \E from \in SeqsUpTo(ContextAppNames \X ContextFiles, MaxEdgeMerges) :
           incoming = [i \in DOMAIN from |-> CanonicalEdgeIn(from[i][1], from[i][2])]
    /\ mi = 1
    /\ qri = None
    /\ result = None
    /\ pc = "add_edge_calls"
    /\ arts = <<>>
    /\ records = <<>>
    /\ ri = 1
    /\ k = 1
    /\ RowsIdle
    /\ SearchIdle
    /\ ids = {}
    /\ fi = 1
    /\ skipped_files = EmptyDict
    /\ rows = EmptyDict
    /\ run = 0
    /\ first = EmptyDict

SpecContext == InitContext /\ [][NextAddEdge]_vars

\* The values of a context field contributed so far that are not null, each
\* at its first appearance.
RECURSIVE FirstAppearances(_, _)
FirstAppearances(field, n) ==
    IF n = 0 THEN <<>>
    ELSE LET front == FirstAppearances(field, n - 1)
             value == incoming[n].context[field]
         IN  IF value = None \/ value \in Range(front) THEN front
             ELSE Append(front, value)

\* C21: after any number of contributions to an edge id, appIds, appNames and
\* files hold no null and no value twice and list the contributed values in
\* the order of their first appearance, and occurrences is the number of
\* contributions.
C21_ContextLists ==
    mi > 1 =>
        LET context == edges[EdgeM].context
        IN  /\ context.appIds = FirstAppearances("appId", mi - 1)
            /\ context.appNames = FirstAppearances("appName", mi - 1)
            /\ context.files = FirstAppearances("file", mi - 1)
            /\ \A list \in {context.appIds, context.appNames, context.files} :
                   NoDuplicates(list) /\ None \notin Range(list)
            /\ context.occurrences = mi - 1

(* ------------------------------------------------------------------ *)
(* fetchers/graph_store.py: the app infos of a build                   *)
(* ------------------------------------------------------------------ *)

\* Artifacts per build whose app infos are merged.
MaxAppRecords == 3

IdApp9 == <<"qri:app:sense://", "app-9">>

\* The raw node of another app, and a node described as the app itself.
SenseNode == [key |-> IdApp9, label |-> <<"O", "t", "h", "e", "r">>, metadata |-> EmptyDict]
DaAppNode == [key |-> IdA, label |-> None, metadata |-> Dict1("type", <<"DA_APP">>)]

\* Artifacts of two apps, fetched at one of two instants or without
\* fetched_at, each with no node, with the other app's node and an edge, or
\* with the app's own node.
AppBodies ==
    {[app |-> a, fetched_at |-> t, nodes |-> g[1], edges |-> g[2]] :
        a \in {App1, App2}, t \in {0, 1, 2},
        g \in {<< <<>>, <<>> >>,
               << <<SenseNode>>, <<[source |-> IdT, target |-> IdApp9, relation |-> "LOAD"]>> >>,
               << <<DaAppNode>>, <<>> >>}}

InitApps ==
    \E bodies \in SeqsUpTo(AppBodies, MaxAppRecords) :
        InitOf([i \in DOMAIN bodies |-> WithFile(bodies[i], FileName(i))])

SpecApps == InitApps /\ [][Next]_vars

\* The records of the app that the loop has finished.
Contributors(app_id) == {i \in 1..(ri - 1) : records[i].app_info.appId = app_id}

\* The first of them that no other is fetched after.
Winner(app_id) ==
    CHOOSE i \in Contributors(app_id) :
        /\ \A j \in Contributors(app_id) :
               records[j].app_info.fetched_at <= records[i].app_info.fetched_at
        /\ \A j \in Contributors(app_id) :
               records[j].app_info.fetched_at = records[i].app_info.fetched_at => i <= j

MaxRootNodes == 3

IdApp1 == <<"qri:app:sense://", "app-1">>

\* The app "Sa", and an app without a name.
AppSa == [id |-> <<"app-1">>, name |-> <<"S", "a">>, spaceId |-> None]
AppUnnamed == [id |-> <<"app-2">>, name |-> None, spaceId |-> None]

\* A table whose label holds the app name, the node of another app, the app's
\* own node with the name in another case in its label, and a node whose
\* metadata say it is the app.
RootRawNodes ==
    {[key |-> IdT, label |-> <<"S", "a">>, metadata |-> EmptyDict],
     SenseNode,
     [key |-> IdApp1, label |-> <<"x", "s", "A">>, metadata |-> EmptyDict],
     DaAppNode}

RootBodies ==
    {[app |-> a, fetched_at |-> 1, nodes |-> ns, edges |-> es] :
        a \in {AppSa, AppUnnamed},
        ns \in {q \in SeqsUpTo(RootRawNodes, MaxRootNodes) :
                   \A i, j \in DOMAIN q : i # j => q[i] # q[j]},
        es \in {<<>>, <<[source |-> IdT, target |-> IdApp9, relation |-> "LOAD"]>>}}

InitRoot ==
    \E bodies \in SeqsUpTo(RootBodies, MaxRecords) :
        InitOf([i \in DOMAIN bodies |-> WithFile(bodies[i], FileName(i))])

SpecRoot == InitRoot /\ [][Next]_vars

\* The least of a non-empty set of positions.
Least(S) == CHOOSE i \in S : \A j \in S : i <= j

\* text contains name, whatever the case of the letters.
ContainsAnyCase(text, name) ==
    \E i \in 0..(Len(text) - Len(name)) :
        \A j \in 1..Len(name) : LowerLetter(text[i + j]) = LowerLetter(name[j])

\* The root the priority order gives for a record.
RootByPriority(record) ==
    LET ns == record.nodes
        name == record.app_info.appName
        DaApps == {i \in DOMAIN ns : "type" \in DOMAIN ns[i].meta
                                        /\ ns[i].meta["type"] = <<"DA_APP">>}
        NamedApps == {i \in DOMAIN ns : /\ name # <<>>
                                        /\ ns[i].type = "app"
                                        /\ ContainsAnyCase(ns[i].label, name)}
        SenseApps == {i \in DOMAIN ns : ns[i].id[1] = "qri:app:sense://"}
    IN  IF DaApps # {} THEN ns[Least(DaApps)].id
        ELSE IF NamedApps # {} THEN ns[Least(NamedApps)].id
        ELSE IF SenseApps # {} THEN ns[Least(SenseApps)].id
        ELSE IF ns # <<>> THEN ns[1].id
        ELSE None

NodeKeys ==
    {IdT, <<"QRI:DB:", "pg", "://", "t">>, IdA, IdApp1,
     <<"qri:db:", "pg", "://", "t", ".qvd">>, <<"qri:file:", "x">>}

\* The metadata with a type, a subtype, both or neither.
NodeMetadata ==
    {[x \in keys |-> IF x = "type" THEN t ELSE st] :
        keys \in SUBSET {"type", "subtype"},
        t \in {<<"DA_APP">>, <<"DATASET">>}, st \in {<<"TABLE">>, <<"VIEW">>}}

InitNode ==
    /\ \E key \in NodeKeys, label \in {None, <<"c", "u", "s", "t">>},
          metadata \in NodeMetadata :
          incoming = <<[key |-> key, label |-> label, metadata |-> metadata]>>
    /\ mi = 1
    /\ qri = None
    /\ result = None
    /\ pc = "build_node_call"
    /\ arts = <<>>
    /\ records = <<>>
    /\ ri = 1
    /\ k = 1
    /\ nodes = EmptyDict
    /\ edges = EmptyDict
    /\ out_adj = EmptyDict
    /\ in_adj = EmptyDict
    /\ apps = EmptyDict
    /\ SearchIdle
    /\ ids = {}
    /\ fi = 1
    /\ skipped_files = EmptyDict
    /\ rows = EmptyDict
    /\ node_projects = EmptyDict
    /\ source_nodes_by_project_and_group = EmptyDict
    /\ origin = EmptyDict
    /\ ci = 1
    /\ run = 1
    /\ first = EmptyDict

\* result = build_node(qri_key, node_obj, app)
BuildNode ==
    /\ pc = "build_node_call"
    /\ result' = build_node(incoming[1].key, incoming[1], App2)
    /\ pc' = "build_node_done"
    /\ UNCHANGED <<build_vars, snapshot_vars, query_vars, ids, fi, skipped_files,
                   rows_vars, qri, incoming, mi>>

NextNode == BuildNode

SpecNode == InitNode /\ [][NextNode]_vars

\* The type of the node before its subtype is looked at: the type the id,
\* the label and the metadata type hint at, an app for DA_APP metadata, a
\* dataset for DATASET metadata on a node of no other type.
TypeSoFar(raw) ==
    LET hinted == derive_type_group_layer(normalize_qri(raw.key).cleaned,
                                          IF raw.label = None THEN raw.key ELSE raw.label,
                                          raw.metadata).type
        meta_type == Get(raw.metadata, "type")
    IN  IF meta_type = <<"DA_APP">> THEN "app"
        ELSE IF meta_type = <<"DATASET">> /\ hinted = "other" THEN "dataset"
        ELSE hinted

\* C25: the node build_node returns for metadata.subtype 'TABLE' has type
\* 'table' and layer 'db' whenever its id starts with 'qri:db:' or the type
\* computed before the subtype is looked at is db, table or other.
C25_TableForced ==
    pc = "build_node_done" =>
        LET raw == incoming[1]
        IN  (/\ Get(raw.metadata, "subtype") = <<"TABLE">>
             /\ \/ result.id[1] = "qri:db:"
                \/ TypeSoFar(raw) \in {"db", "table", "other"})
            => result.type = "table" /\ result.layer = "db"

(* ------------------------------------------------------------------ *)
(* app/db_runtime_views.py: edge rows that share an edge id            *)
(* ------------------------------------------------------------------ *)

\* Edge rows handed to a call when they may share an id.
MaxSharedEdgeRows == 2

\* The edge e1 as project 1 and as project 2 stored it, and a row of project
\* 1 whose payload names e1 as its id.
SharedEdgeRowPool ==
    {[project_id |-> 1, edge_id |-> <<"e1">>,
      data |-> [x \in {"source", "target", "relation"} |->
                   CASE x = "source" -> RowTableId
                     [] x = "target" -> RootId
                     [] OTHER -> "LOAD"]],
     [project_id |-> 2, edge_id |-> <<"e1">>,
      data |-> [x \in {"source", "target"} |->
                   IF x = "source" THEN <<"x">> ELSE RootId]],
     [project_id |-> 1, edge_id |-> <<"e3">>,
      data |-> [x \in {"id", "source", "target"} |->
                   CASE x = "id" -> <<"e1">>
                     [] x = "source" -> RootId
                     [] OTHER -> RowTableId]]}

EdgeKey(row) == <<row.project_id, row.edge_id>>

InitSharedRows ==
    /\ \E n \in SeqsUpTo({[project_id |-> 1, node_id |-> RowTableId, app_id |-> None,
                           data |-> [x \in {"type"} |-> "table"]]}, 1),
          e \in {x \in SeqsUpTo(SharedEdgeRowPool, MaxSharedEdgeRows) :
                    \A i, j \in DOMAIN x : i # j => EdgeKey(x[i]) # EdgeKey(x[j])},
          c \in SeqsUpTo({[project_id |-> 1, connection_id |-> <<"c1">>,
                           space_id |-> None, qri |-> None,
                           data |-> [x \in {"qName", "type"} |->
                                        IF x = "qName" THEN <<"ERP">>
                                        ELSE <<"PostgreSQL">>]]}, 1) :
          \E m \in [DOMAIN c -> MatchPool] : rows = RowsOf(n, e, c, m, EmptyDict)
    /\ pc = "node_rows"
    /\ run = 1
    /\ first = EmptyDict
    /\ RowsIdle
    /\ arts = <<>>
    /\ records = <<>>
    /\ ri = 1
    /\ k = 1
    /\ SearchIdle
    /\ ids = {}
    /\ fi = 1
    /\ skipped_files = EmptyDict
    /\ UnitIdle

SpecSharedRows == InitSharedRows /\ [][NextRows]_vars

\* C26: in the snapshot _build_snapshot_from_rows returns, an edge id is in
\* out_adj[n] exactly when it is an edge whose source is n, and in in_adj[n]
\* exactly when it is an edge whose target is n, also when two edge rows
\* resolve to one edge id with different endpoints.
C26_AdjacencyConsistent ==
    pc = "rows_returned" =>
        \A n \in DOMAIN nodes \cup DOMAIN out_adj \cup DOMAIN in_adj :
            /\ AdjGet(out_adj, n) = {id \in DOMAIN edges : edges[id].source = n}
            /\ AdjGet(in_adj, n) = {id \in DOMAIN edges : edges[id].target = n}

(* ------------------------------------------------------------------ *)
(* fetchers/graph_store.py: build and the objects of its input         *)
(* ------------------------------------------------------------------ *)

\* The records are Python objects that build reads and that outlive it.
\* _merge_node stores node.get("meta") of the first node of an id, the dict
\* of the input node itself, and merges the metas of later nodes into that
\* dict; build sets rootNodeId in the app_info of the record and stores that
\* app_info in apps.  origin.meta names, for a node of the snapshot, the
\* input node (record, position) whose meta dict it holds; origin.app, for an
\* app, the record whose app_info it holds.  records holds the input objects
\* as they are now, arts what they were built from.

\* A raw node with a meta key of its own, and a node without metadata.
KeyedNode == [key |-> IdA, label |-> None, metadata |-> Dict1("k", <<"v1">>)]
BareNode == [key |-> IdB, label |-> None, metadata |-> EmptyDict]

\* The node lists of an artifact: keys are distinct within an artifact.
SharedNodeLists ==
    {<<>>, <<KeyedNode>>, <<DaAppNode>>, <<BareNode>>, <<KeyedNode, BareNode>>,
     <<BareNode, KeyedNode>>, <<DaAppNode, BareNode>>, <<BareNode, DaAppNode>>}

SharedBodies ==
    {[app |-> a, fetched_at |-> 1, nodes |-> ns, edges |-> es] :
        a \in {App1, App2}, ns \in SharedNodeLists,
        es \in {<<>>, <<[source |-> IdA, target |-> IdB, relation |-> "LOAD"]>>}}

NothingShared == [meta |-> EmptyDict, app |-> EmptyDict]

InitShared ==
    /\ \E bodies \in SeqsUpTo(SharedBodies, MaxRecords) :
          /\ arts = [i \in DOMAIN bodies |-> WithFile(bodies[i], FileName(i))]
          /\ records = [i \in DOMAIN bodies |->
                           normalize_file(WithFile(bodies[i], FileName(i)))]
    /\ ri = 1
    /\ pc = "shared_loop"
    /\ k = 1
    /\ nodes = EmptyDict
    /\ edges = EmptyDict
    /\ out_adj = EmptyDict
    /\ in_adj = EmptyDict
    /\ apps = EmptyDict
    /\ SearchIdle
    /\ UnitIdle
    /\ ids = {}
    /\ fi = 1
    /\ skipped_files = EmptyDict
    /\ rows = EmptyDict
    /\ node_projects = EmptyDict
    /\ source_nodes_by_project_and_group = EmptyDict
    /\ origin = NothingShared
    /\ ci = 1
    /\ run = 1
    /\ first = EmptyDict

\* existing_meta[key] = value on the dict of the input node at position at
WriteMeta(recs, at, meta) == [recs EXCEPT ![at[1]].nodes[at[2]].meta = meta]

\* self._merge_node(nodes, node) for the node at position kk of record r.
\* st holds nodes, the input objects and the metas shared between them.
MergeNodeShared(st, r, kk, node) ==
    IF node.id \notin DOMAIN st.nodes
    THEN [st EXCEPT !.nodes = MergeNode(@, node),
                    !.shared = IF node.meta # EmptyDict
                               THEN DictSet(@, node.id, <<r, kk>>) ELSE @]
    ELSE IF node.id \in DOMAIN st.shared
    THEN [st EXCEPT !.nodes = MergeNode(@, node),
                    !.records = WriteMeta(@, st.shared[node.id],
                                          MergeNode(st.nodes, node)[node.id].meta)]
    ELSE [st EXCEPT !.nodes = MergeNode(@, node)]

\* for node in canonical_nodes: self._merge_node(nodes, node), from kk on
RECURSIVE MergeNodesShared(_, _, _)
MergeNodesShared(st, r, kk) ==
    IF kk > Len(st.records[r].nodes) THEN st
    ELSE MergeNodesShared(MergeNodeShared(st, r, kk, st.records[r].nodes[kk]), r, kk + 1)

\* root = self._detect_root(canonical_nodes, ...); if root:
\* app_info["rootNodeId"] = root
RootSet(record) == [record EXCEPT !.app_info = WithRoot(record)]

\* What the body of the loop of build leaves of the record, of the snapshot
\* and of what they share.
SharedStep(st, r, merged_nodes, record) ==
    [nodes |-> EnsureNodes(merged_nodes, record.edges),
     graph |-> AddEdges([edges |-> st.edges, out_adj |-> st.out_adj,
                         in_adj |-> st.in_adj], record.edges),
     apps |-> MergeAppInfo(st.apps, record.app_info),
     record |-> record]

\* One pass of the loop of build.
MergeRecordShared ==
    /\ pc = "shared_loop"
    /\ ri <= Len(records)
    /\ \E merged \in {MergeNodesShared([nodes |-> nodes, records |-> records,
                                        shared |-> origin.meta], ri, 1)} :
       \E step \in {SharedStep([edges |-> edges, out_adj |-> out_adj,
                                in_adj |-> in_adj, apps |-> apps],
                               ri, merged.nodes, RootSet(merged.records[ri]))} :
           /\ nodes' = step.nodes
           /\ edges' = step.graph.edges
           /\ out_adj' = step.graph.out_adj
           /\ in_adj' = step.graph.in_adj
           /\ apps' = step.apps
           /\ records' = [merged.records EXCEPT ![ri] = step.record]
           /\ origin' = [meta |-> merged.shared,
                         app |-> IF step.apps # apps
                                 THEN DictSet(origin.app, step.record.app_info.appId, ri)
                                 ELSE origin.app]
    /\ ri' = ri + 1
    /\ UNCHANGED <<arts, k, pc, query_vars, ids, fi, skipped_files, rows, node_projects,
                   source_nodes_by_project_and_group, ci, run, first, unit_vars>>

\* return GraphSnapshot(...); the caller keeps the first snapshot.
ReturnShared ==
    /\ pc = "shared_loop"
    /\ ri > Len(records)
    /\ pc' = "shared_done"
    /\ first' = IF run = 1
                THEN [nodes |-> nodes, edges |-> edges, apps |-> apps, shared |-> origin]
                ELSE first
    /\ UNCHANGED <<build_vars, snapshot_vars, query_vars, ids, fi, skipped_files, rows,
                   node_projects, source_nodes_by_project_and_group, origin, ci, run,
                   unit_vars>>

\* build is called again on the same record objects.
BuildAgain ==
    /\ pc = "shared_done"
    /\ run = 1
    /\ run' = 2
    /\ pc' = "shared_loop"
    /\ ri' = 1
    /\ nodes' = EmptyDict
    /\ edges' = EmptyDict
    /\ out_adj' = EmptyDict
    /\ in_adj' = EmptyDict
    /\ apps' = EmptyDict
    /\ origin' = NothingShared
    /\ UNCHANGED <<arts, records, k, query_vars, ids, fi, skipped_files, rows,
                   node_projects, source_nodes_by_project_and_group, ci, first, unit_vars>>

NextShared == MergeRecordShared \/ ReturnShared \/ BuildAgain

SpecShared == InitShared /\ [][NextShared]_vars

\* The nodes of the first snapshot as its holder reads them now.
FirstNodesNow ==
    [id \in DOMAIN first.nodes |->
        IF id \in DOMAIN first.shared.meta
        THEN [first.nodes[id] EXCEPT
                 !.meta = records[first.shared.meta[id][1]].nodes[first.shared.meta[id][2]].meta]
        ELSE first.nodes[id]]

\* The apps of the first snapshot as its holder reads them now.
FirstAppsNow ==
    [app_id \in DOMAIN first.apps |-> records[first.shared.app[app_id]].app_info]

\* C27: when build returns, the canonical node records it was given are what
\* they were, meta maps included; when it returns the second time from the
\* same record objects, its nodes and edges and each app's rootNodeId are
\* those of the first snapshot, and the first snapshot reads as it did when
\* it was returned.
C27_BuildLeavesInput ==
    pc = "shared_done" =>
        /\ \A i \in DOMAIN records : records[i].nodes = normalize_file(arts[i]).nodes
        /\ run = 2 =>
               /\ nodes = first.nodes
               /\ edges = first.edges
               /\ DOMAIN apps = DOMAIN first.apps
               /\ \A app_id \in DOMAIN apps :
                      apps[app_id].rootNodeId = first.apps[app_id].rootNodeId
               /\ FirstNodesNow = first.nodes
               /\ FirstAppsNow = first.apps

(* ------------------------------------------------------------------ *)
(* fetchers/graph_store.py: build and the order of its records         *)
(* ------------------------------------------------------------------ *)

\* What C30 reads of a snapshot: the node ids, and the endpoints, the
\* relation and the occurrences of every edge id.
IdsOf(s_nodes, s_edges) ==
    [nodes |-> DOMAIN s_nodes,
     edges |-> [e \in DOMAIN s_edges |->
                   <<s_edges[e].source, s_edges[e].target, s_edges[e].relation,
                     s_edges[e].context.occurrences>>]]

\* C30: the snapshot build returns has the node ids, the edge ids with their
\* endpoints and relations, and the occurrences of each edge that build
\* returns for the same records in the other order.
C30_OrderIndependentIds ==
    pc = "done" =>
        IdsOf(nodes, edges) = IdsOf(Build(Reverse(records)).nodes,
                                    Build(Reverse(records)).edges)

====
